---- MODULE Spec2Model ----
(***************************************************************************)
(* State-machine model of the RAGging document pipeline: the SQLite job    *)
(* queue (src/common/storage.py), the ingestion agent, the document        *)
(* processing pipeline (src/main.py), the embedding agent with its key     *)
(* rotator and rate limiter, and the chat turn of the RAG agent.           *)
(***************************************************************************)
EXTENDS Integers, Sequences, FiniteSets, TLC

(***************************************************************************)
(* Part 1.  Job queue, ingestion and document processing                   *)
(***************************************************************************)

\* Bound: total number of enqueue attempts (file detections + add_job calls)
MaxEnqueues == 2

\* JobStatus enum
PENDING == "pending"
PROCESSING == "processing"
COMPLETED == "completed"
FAILED == "failed"
JobStatus == {PENDING, PROCESSING, COMPLETED, FAILED}
Terminal == {COMPLETED, FAILED}

\* None, for a doc_id / a fetched row and for an error message
NoJob == <<>>
NoError == <<>>

\* The two pipelines that run process_queue against the same app.db:
\* scripts/start_app.py creates one and starts it, then start_app() lets
\* NiceGUIApp.initialize_pipeline create and start another.
Workers == {"startup", "frontend"}

\* Callers of process_new_file: scan_existing_files and the watchdog handler
Ingesters == {"scan", "watch"}

\* Detected files: language directory, filename stem, SHA256 digest of the bytes
\* (head = first 8 hex digits, tail = the rest).
Files ==
  { [language |-> "bn", stem |-> "report", sha256 |-> <<"ab12cd34", "t1">>],
    [language |-> "ur", stem |-> "notice", sha256 |-> <<"ef56ab78", "t2">>] }

compute_file_hash(f) == f.sha256

\* f"{language}_{file_path.stem}_{file_hash[:8]}"
generate_doc_id(f) == <<f.language, f.stem, compute_file_hash(f)[1]>>

DocIds == { generate_doc_id(f) : f \in Files }

\* processing_dir / f"{doc_id}.pdf"
dest_path(doc_id) == <<"processing", doc_id>>

\* a file path a direct caller of add_job may pass
OtherPath == <<"elsewhere">>

\* Stages of process_document that can raise
PreEmbedding == {"ocr", "cleanup", "chunking"}
StageSet == PreEmbedding \cup {"embedding"}

\* str(e) of the exception a stage raises
StageError(s) == <<"error in", s>>

VARIABLES
  jobs,       \* rows of the jobs table, in insertion (id) order
  points,     \* doc_ids that have at least one point in the Qdrant collection
  wpc,        \* per worker: position in process_queue / process_document
  held,       \* per worker: doc_id of the job selected / being processed
  err,        \* per worker: message of the exception caught in process_document
  ipc,        \* per ingester: position in process_new_file
  ifile,      \* per ingester: the file being handled
  enqueues,   \* number of enqueue attempts started so far
  hist        \* history: per doc_id, the statuses written to its row, in order

jobVars == <<jobs, points, wpc, held, err, ipc, ifile, enqueues, hist>>

\* embedding agent (Part 2)
VARIABLES
  api_keys,           \* config.get_gemini_keys(): the configured keys, in order
  key_idx,            \* GeminiKeyRotator: position of current_key in the cycle
  last_request_time,  \* GeminiKeyRotator.last_request_time
  now,                \* time.time(), in ticks
  texts,              \* embed_batch: the input list
  batch_size,         \* embed_batch: its batch_size argument
  bpc,                \* embed_batch: position
  batch_start,        \* embed_batch: loop variable i
  embeddings,         \* embed_batch: the list returned
  epc,                \* per text index: position of its embed_text call
  wake,               \* per text index: when its asyncio.sleep ends
  attempt,            \* per text index: loop variable attempt
  res,                \* per text index: value embed_text returned
  sent                \* history: the embed_content requests, in the order sent

embedVars == <<api_keys, key_idx, last_request_time, now, texts, batch_size, bpc,
               batch_start, embeddings, epc, wake, attempt, res, sent>>

\* chat (Part 3)
VARIABLES
  chat_sessions,  \* session_ids of the rows of table chat_sessions
  chat_messages,  \* rows of table chat_messages, in insertion order
  turns,          \* number of chat calls started so far
  tpc,            \* per chat task: position in RAGAgent.chat
  tsid,           \* per chat task: session_id
  tstream,        \* per chat task: the stream argument
  tctx,           \* per chat task: what retrieve_context gave
  ttokens,        \* per chat task: number of tokens the primary model streamed
  tresp,          \* per chat task: the response text yielded to the caller
  tlog            \* history: per chat task, the steps of the current turn in order

chatVars == <<chat_sessions, chat_messages, turns, tpc, tsid, tstream, tctx, ttokens,
              tresp, tlog>>

VARIABLES
  fn,      \* the library function called last ("none" before any call)
  args,    \* its arguments
  result   \* what it returned

callVars == <<fn, args, result>>

\* one DocumentProcessingPipeline (main.py)
VARIABLES
  processing,  \* self.processing
  loops,       \* the process_queue tasks created so far: position and job held
  ingest       \* cli.py ingest_documents: position and the incoming directory's files

pipeVars == <<processing, loops, ingest>>

\* the vector database and one RetrieverAgent (retriever_agent.py)
VARIABLES
  collection,     \* chunk_ids of the points of the Qdrant collection
  bm25_index,     \* self.bm25_index: built (TRUE) or None (FALSE)
  bm25_documents  \* self.bm25_documents, as the set of their chunk_ids

retrieverVars == <<collection, bm25_index, bm25_documents>>

vars == <<jobVars, embedVars, chatVars, callVars, pipeVars, retrieverVars>>

----------------------------------------------------------------------------
\* storage.py

RowsOf(js, doc_id) == { i \in 1..Len(js) : js[i].doc_id = doc_id }

\* SELECT * FROM jobs WHERE doc_id = ?  (fetchone)
\* (the result is <<>> for None, <<row>> otherwise)
get_job(js, doc_id) ==
  IF RowsOf(js, doc_id) = {} THEN NoJob
  ELSE <<js[CHOOSE i \in RowsOf(js, doc_id) : \A k \in RowsOf(js, doc_id) : i <= k]>>

\* INSERT INTO jobs ...: doc_id is UNIQUE, so a duplicate raises IntegrityError
\* and the table is left as it was.
add_job_raises(js, doc_id) == RowsOf(js, doc_id) # {}

add_job_replacing(js, doc_id, file_path, language) ==
  LET row == [doc_id |-> doc_id, file_path |-> file_path, language |-> language,
              status |-> PENDING, error_message |-> NoError]
  IN IF add_job_raises(js, doc_id)
       THEN [i \in 1..Len(js) |-> IF js[i].doc_id = doc_id THEN row ELSE js[i]]
       ELSE Append(js, row)

add_job(js, doc_id, file_path, language) ==
  IF add_job_raises(js, doc_id) THEN js
  ELSE Append(js, [doc_id |-> doc_id, file_path |-> file_path, language |-> language,
                   status |-> PENDING, error_message |-> NoError])

RECURSIVE SelectWhere(_, _)
SelectWhere(js, st) ==
  IF js = <<>> THEN <<>>
  ELSE IF Head(js).status \in st THEN <<Head(js)>> \o SelectWhere(Tail(js), st)
       ELSE SelectWhere(Tail(js), st)

Limit(s, n) == IF Len(s) <= n THEN s ELSE SubSeq(s, 1, n)

get_pending_jobs_any_status(js, limit) == Limit(SelectWhere(js, JobStatus), limit)

\* SELECT * FROM jobs WHERE status = 'pending' ORDER BY created_at LIMIT ?
get_pending_jobs(js, limit) == Limit(SelectWhere(js, {PENDING}), limit)

\* UPDATE jobs SET status = ?, error_message = ? WHERE doc_id = ?
update_job_status(js, doc_id, status, error_message) ==
  [i \in 1..Len(js) |->
     IF js[i].doc_id = doc_id
       THEN [js[i] EXCEPT !.status = status, !.error_message = error_message]
       ELSE js[i]]

HasRow(js, doc_id) == RowsOf(js, doc_id) # {}

\* history bookkeeping for a status write
Wrote(h, js, doc_id, status) ==
  IF HasRow(js, doc_id) THEN [h EXCEPT ![doc_id] = Append(@, status)] ELSE h

----------------------------------------------------------------------------
\* ingestion_agent.py: process_new_file

\* a file is detected; process_new_file sleeps, finds the file and its
\* language, derives the doc_id and issues get_job
Detect(i, f) ==
  /\ ipc[i] = "idle"
  /\ enqueues < MaxEnqueues
  /\ enqueues' = enqueues + 1
  /\ ipc' = [ipc EXCEPT ![i] = "get_job"]
  /\ ifile' = [ifile EXCEPT ![i] = f]
  /\ UNCHANGED <<retrieverVars, pipeVars, callVars, embedVars, chatVars, jobs, points, wpc, held, err, hist>>

\* the file an ingester holds while process_new_file is not running
NoFile == CHOOSE f \in Files : TRUE

\* get_job returned: skip when the document is already queued, else copy the
\* file to the processing directory and issue add_job
CheckExisting(i) ==
  /\ ipc[i] = "get_job"
  /\ IF get_job(jobs, generate_doc_id(ifile[i])) # NoJob
       THEN /\ ipc' = [ipc EXCEPT ![i] = "idle"]
            /\ ifile' = [ifile EXCEPT ![i] = NoFile]
       ELSE /\ ipc' = [ipc EXCEPT ![i] = "add_job"]
            /\ ifile' = ifile
  /\ UNCHANGED <<retrieverVars, pipeVars, callVars, embedVars, chatVars, jobs, points, wpc, held, err, enqueues, hist>>

\* add_job runs; an IntegrityError passes control to process_new_file's
\* except clause
Enqueue(i) ==
  /\ ipc[i] = "add_job"
  /\ LET d == generate_doc_id(ifile[i])
     IN /\ jobs' = add_job(jobs, d, dest_path(d), ifile[i].language)
        /\ hist' = IF add_job_raises(jobs, d) THEN hist
                   ELSE [hist EXCEPT ![d] = Append(@, PENDING)]
        /\ IF add_job_raises(jobs, d)
             THEN /\ ipc' = [ipc EXCEPT ![i] = "except"]
                  /\ ifile' = ifile
             ELSE /\ ipc' = [ipc EXCEPT ![i] = "idle"]
                  /\ ifile' = [ifile EXCEPT ![i] = NoFile]
  /\ UNCHANGED <<retrieverVars, pipeVars, callVars, embedVars, chatVars, points, wpc, held, err, enqueues>>

\* except Exception as e: logger.error(...); process_new_file returns
EnqueueFailed(i) ==
  /\ ipc[i] = "except"
  /\ ipc' = [ipc EXCEPT ![i] = "idle"]
  /\ ifile' = [ifile EXCEPT ![i] = NoFile]
  /\ UNCHANGED <<retrieverVars, pipeVars, callVars, embedVars, chatVars, jobs, points, wpc, held, err, enqueues, hist>>

\* storage.add_job called directly
AddJobCall(f, path) ==
  /\ enqueues < MaxEnqueues
  /\ enqueues' = enqueues + 1
  /\ LET d == generate_doc_id(f)
     IN /\ jobs' = add_job(jobs, d, path, f.language)
        /\ hist' = IF add_job_raises(jobs, d) THEN hist
                   ELSE [hist EXCEPT ![d] = Append(@, PENDING)]
  /\ UNCHANGED <<retrieverVars, pipeVars, callVars, embedVars, chatVars, points, wpc, held, err, ipc, ifile>>

----------------------------------------------------------------------------
\* ingestion_agent.py: get_next_job; main.py: process_queue, process_document

\* jobs = await storage.get_pending_jobs(limit=1), with a job found
SelectPending(w) ==
  /\ wpc[w] = "loop"
  /\ get_pending_jobs(jobs, 1) # <<>>
  /\ held' = [held EXCEPT ![w] = get_pending_jobs(jobs, 1)[1].doc_id]
  /\ wpc' = [wpc EXCEPT ![w] = "selected"]
  /\ UNCHANGED <<retrieverVars, pipeVars, callVars, embedVars, chatVars, jobs, points, err, ipc, ifile, enqueues, hist>>

\* no pending job: get_next_job returns None, process_queue sleeps 5 s and
\* is back at the top of its loop
NoJobFound(w) ==
  /\ wpc[w] = "loop"
  /\ get_pending_jobs(jobs, 1) = <<>>
  /\ UNCHANGED <<retrieverVars, pipeVars, callVars, embedVars, chatVars, jobs, points, wpc, held, err, ipc, ifile, enqueues, hist>>

\* await storage.update_job_status(job['doc_id'], PROCESSING); return job
ClaimJob(w) ==
  /\ wpc[w] = "selected"
  /\ jobs' = update_job_status(jobs, held[w], PROCESSING, NoError)
  /\ hist' = Wrote(hist, jobs, held[w], PROCESSING)
  /\ wpc' = [wpc EXCEPT ![w] = "ocr"]
  /\ UNCHANGED <<retrieverVars, pipeVars, callVars, embedVars, chatVars, points, held, err, ipc, ifile, enqueues>>

\* points after store_chunks_in_qdrant of n embedded chunks of doc_id:
\* nothing is stored (and nothing raised) when no chunk was embedded
store_chunks_in_qdrant(pts, doc_id, n) ==
  IF n = 0 THEN pts ELSE pts \cup {doc_id}

\* OCR, cleanup and chunking (no shared state is touched): all three finish
\* normally and control reaches the embedding step
StagesOk(w) ==
  /\ wpc[w] = "ocr"
  /\ wpc' = [wpc EXCEPT ![w] = "embedding"]
  /\ UNCHANGED <<retrieverVars, pipeVars, callVars, embedVars, chatVars, jobs, points, held, err, ipc, ifile, enqueues, hist>>

\* embedding_agent.process_document: embed_chunks keeps the n chunks whose
\* embedding is not None, store_chunks_in_qdrant uploads them
EmbedAndStore(w, n) ==
  /\ wpc[w] = "embedding"
  /\ points' = store_chunks_in_qdrant(points, held[w], n)
  /\ wpc' = [wpc EXCEPT ![w] = "completing"]
  /\ UNCHANGED <<retrieverVars, pipeVars, callVars, embedVars, chatVars, jobs, held, err, ipc, ifile, enqueues, hist>>

\* a stage raises: control passes to the except clause of process_document
\* (s is the stage: one of OCR, cleanup, chunking when control is before the
\* embedding step, else the embedding/storage step itself)
StageRaises(w, s) ==
  /\ \/ wpc[w] = "ocr" /\ s \in PreEmbedding
     \/ wpc[w] = "embedding" /\ s = "embedding"
  /\ err' = [err EXCEPT ![w] = StageError(s)]
  /\ wpc' = [wpc EXCEPT ![w] = "except"]
  /\ UNCHANGED <<retrieverVars, pipeVars, callVars, embedVars, chatVars, jobs, points, held, ipc, ifile, enqueues, hist>>

\* await self.ingestion_agent.mark_job_completed(doc_id)
MarkCompleted(w) ==
  /\ wpc[w] = "completing"
  /\ jobs' = update_job_status(jobs, held[w], COMPLETED, NoError)
  /\ hist' = Wrote(hist, jobs, held[w], COMPLETED)
  /\ wpc' = [wpc EXCEPT ![w] = "loop"]
  /\ held' = [held EXCEPT ![w] = NoJob]
  /\ UNCHANGED <<retrieverVars, pipeVars, callVars, embedVars, chatVars, points, err, ipc, ifile, enqueues>>

\* except Exception as e: await self.ingestion_agent.mark_job_failed(doc_id, str(e))
MarkFailed(w) ==
  /\ wpc[w] = "except"
  /\ jobs' = update_job_status(jobs, held[w], FAILED, err[w])
  /\ hist' = Wrote(hist, jobs, held[w], FAILED)
  /\ wpc' = [wpc EXCEPT ![w] = "loop"]
  /\ held' = [held EXCEPT ![w] = NoJob]
  /\ err' = [err EXCEPT ![w] = NoError]
  /\ UNCHANGED <<retrieverVars, pipeVars, callVars, embedVars, chatVars, points, ipc, ifile, enqueues>>

\* Bound: chunks of a document
MaxChunks == 1

Ingest ==
  \/ \E i \in Ingesters, f \in Files : Detect(i, f)
  \/ \E i \in Ingesters : CheckExisting(i)
  \/ \E i \in Ingesters : Enqueue(i)
  \/ \E i \in Ingesters : EnqueueFailed(i)
  \/ \E f \in Files : \E p \in {dest_path(generate_doc_id(f)), OtherPath} : AddJobCall(f, p)

WorkerStep(w) ==
  \/ SelectPending(w)
  \/ NoJobFound(w)
  \/ ClaimJob(w)
  \/ StagesOk(w)
  \/ \E n \in 0..MaxChunks : EmbedAndStore(w, n)
  \/ \E s \in StageSet : StageRaises(w, s)
  \/ MarkCompleted(w)
  \/ MarkFailed(w)

InitJobs ==
  /\ jobs = <<>>
  /\ points = {}
  /\ wpc = [w \in Workers |-> "loop"]
  /\ held = [w \in Workers |-> NoJob]
  /\ err = [w \in Workers |-> NoError]
  /\ ipc = [i \in Ingesters |-> "idle"]
  /\ ifile = [i \in Ingesters |-> NoFile]
  /\ enqueues = 0
  /\ hist = [d \in DocIds |-> <<>>]


(***************************************************************************)
(* Part 2.  Embedding agent: key rotation, rate limiter, embed_batch       *)
(***************************************************************************)

\* Bound: number of texts passed to embed_batch
MaxTexts == 3

\* embed_text(text, retry_count=3)
RetryCount == 3

\* embed_batch(texts, batch_size=10)
DefaultBatchSize == 10

\* config.rate_limit_rpm (RATE_LIMIT_RPM, default 90)
rate_limit_rpm == 90

\* resolution of the model's clock: ticks per second of time.time()
TicksPerSecond == 3

\* self.min_interval = 60.0 / self.rate_limit_rpm if self.rate_limit_rpm > 0 else 0
MinInterval ==
  IF rate_limit_rpm > 0 THEN (60 * TicksPerSecond) \div rate_limit_rpm ELSE 0

\* await asyncio.sleep(2 ** attempt)
Backoff(a) == TicksPerSecond * 2^a

\* key configurations: GEMINI_API_KEYS empty, one key, two keys
KeyConfigs == { <<>>, <<"key1">>, <<"key1", "key2">> }

\* batch sizes a caller passes: 2, and the default
BatchSizes == {2, DefaultBatchSize}

TextPool == <<"alpha", "beta", "gamma", "delta", "epsilon">>

\* the failure marker embed_text returns
None == <<>>

\* result['embedding'] for the text at index i
Vec(i) == <<"embedding", texts[i]>>

TextIdx == 1..MaxTexts

Min(a, b) == IF a <= b THEN a ELSE b

\* batch = texts[i:i + batch_size]
InBatch(i) == batch_start < i /\ i <= Min(batch_start + batch_size, Len(texts))

\* GeminiKeyRotator.rotate_key
rotate_key(keys, idx) == IF Len(keys) > 1 THEN (idx % Len(keys)) + 1 ELSE idx

\* GeminiKeyRotator.get_current_key
get_current_key == api_keys[key_idx]

MayRetry_never(a) == FALSE

\* if attempt < retry_count - 1: rotate, back off and try again
MayRetry(a) == a < RetryCount - 1

\* EmbeddingAgent.__init__: the rotator exists only when keys are configured
ConstructAgent(keys) ==
  /\ bpc = "unconstructed"
  /\ api_keys' = keys
  /\ key_idx' = 1
  /\ last_request_time' = 0
  /\ bpc' = "idle"
  /\ UNCHANGED <<retrieverVars, pipeVars, callVars, jobVars, chatVars, now, texts, batch_size, batch_start, embeddings,
                 epc, wake, attempt, res, sent>>

\* embed_batch(texts, batch_size) is called
CallEmbedBatch(n, bs) ==
  /\ bpc = "idle"
  /\ texts' = SubSeq(TextPool, 1, n)
  /\ batch_size' = bs
  /\ batch_start' = 0
  /\ embeddings' = <<>>
  /\ bpc' = "loop"
  /\ UNCHANGED <<retrieverVars, pipeVars, callVars, jobVars, chatVars, api_keys, key_idx, last_request_time, now,
                 epc, wake, attempt, res, sent>>

\* asyncio.gather(*[self.embed_text(text) for text in batch])
LaunchBatch ==
  /\ bpc = "loop"
  /\ batch_start < Len(texts)
  /\ epc' = [i \in TextIdx |-> IF InBatch(i) THEN "start" ELSE epc[i]]
  /\ bpc' = "gather"
  /\ UNCHANGED <<retrieverVars, pipeVars, callVars, jobVars, chatVars, api_keys, key_idx, last_request_time, now, texts,
                 batch_size, batch_start, embeddings, wake, attempt, res, sent>>

\* the gather of the batch completes: embeddings.extend(batch_embeddings)
GatherDone ==
  /\ bpc = "gather"
  /\ \A i \in TextIdx : InBatch(i) => epc[i] = "done"
  /\ embeddings' = embeddings \o
       [k \in 1..(Min(batch_start + batch_size, Len(texts)) - batch_start) |->
          res[batch_start + k]]
  /\ batch_start' = batch_start + batch_size
  /\ bpc' = "loop"
  /\ UNCHANGED <<retrieverVars, pipeVars, callVars, jobVars, chatVars, api_keys, key_idx, last_request_time, now, texts,
                 batch_size, epc, wake, attempt, res, sent>>

\* the loop over the batches ends: return embeddings
ReturnBatch ==
  /\ bpc = "loop"
  /\ batch_start >= Len(texts)
  /\ bpc' = "returned"
  /\ UNCHANGED <<retrieverVars, pipeVars, callVars, jobVars, chatVars, api_keys, key_idx, last_request_time, now, texts,
                 batch_size, batch_start, embeddings, epc, wake, attempt, res, sent>>

\* genai.embed_content for text i on attempt a, succeeding (ok) or raising;
\* entered right after wait_for_rate_limit set last_request_time
Request(i, a, ok) ==
  /\ last_request_time' = now
  /\ sent' = Append(sent, [text |-> i, time |-> now, key |-> get_current_key, ok |-> ok])
  /\ IF ok
       THEN /\ res' = [res EXCEPT ![i] = Vec(i)]
            /\ epc' = [epc EXCEPT ![i] = "done"]
            /\ UNCHANGED <<key_idx, wake, attempt>>
       ELSE IF MayRetry(a)
         THEN /\ key_idx' = rotate_key(api_keys, key_idx)
              /\ epc' = [epc EXCEPT ![i] = "backoff_sleep"]
              /\ wake' = [wake EXCEPT ![i] = now + Backoff(a)]
              /\ attempt' = [attempt EXCEPT ![i] = a]
              /\ UNCHANGED res
         ELSE /\ res' = [res EXCEPT ![i] = None]
              /\ epc' = [epc EXCEPT ![i] = "done"]
              /\ UNCHANGED <<key_idx, wake, attempt>>

\* top of the retry loop for attempt a: wait_for_rate_limit either sleeps or
\* goes straight on to the request
BeginAttempt(i, a, ok) ==
  IF MinInterval > 0 /\ now - last_request_time < MinInterval
    THEN /\ epc' = [epc EXCEPT ![i] = "rate_sleep"]
         /\ wake' = [wake EXCEPT ![i] = now + (MinInterval - (now - last_request_time))]
         /\ attempt' = [attempt EXCEPT ![i] = a]
         /\ UNCHANGED <<key_idx, last_request_time, res, sent>>
    ELSE Request(i, a, ok)

\* embed_text starts running
StartEmbed(i, ok) ==
  /\ epc[i] = "start"
  /\ IF api_keys = <<>>
       THEN /\ res' = [res EXCEPT ![i] = None]
            /\ epc' = [epc EXCEPT ![i] = "done"]
            /\ UNCHANGED <<key_idx, last_request_time, wake, attempt, sent>>
       ELSE BeginAttempt(i, 0, ok)
  /\ UNCHANGED <<retrieverVars, pipeVars, callVars, jobVars, chatVars, api_keys, now, texts, batch_size, bpc, batch_start,
                 embeddings>>

\* the sleep of wait_for_rate_limit ends
WakeRateLimit(i, ok) ==
  /\ epc[i] = "rate_sleep"
  /\ now >= wake[i]
  /\ Request(i, attempt[i], ok)
  /\ UNCHANGED <<retrieverVars, pipeVars, callVars, jobVars, chatVars, api_keys, now, texts, batch_size, bpc, batch_start,
                 embeddings>>

\* the backoff sleep ends: next iteration of the retry loop
WakeBackoff(i, ok) ==
  /\ epc[i] = "backoff_sleep"
  /\ now >= wake[i]
  /\ BeginAttempt(i, attempt[i] + 1, ok)
  /\ UNCHANGED <<retrieverVars, pipeVars, callVars, jobVars, chatVars, api_keys, now, texts, batch_size, bpc, batch_start,
                 embeddings>>

Sleeping == { i \in TextIdx : epc[i] \in {"rate_sleep", "backoff_sleep"} }

\* every task sleeps or is done: the clock runs to the first wake-up time
AdvanceTime ==
  /\ Sleeping # {}
  /\ \A i \in TextIdx : epc[i] # "start"
  /\ \A i \in Sleeping : wake[i] > now
  /\ now' = CHOOSE t \in { wake[i] : i \in Sleeping } : \A i \in Sleeping : t <= wake[i]
  /\ UNCHANGED <<retrieverVars, pipeVars, callVars, jobVars, chatVars, api_keys, key_idx, last_request_time, texts,
                 batch_size, bpc, batch_start, embeddings, epc, wake, attempt, res, sent>>

InitEmbed ==
  /\ api_keys = <<>>
  /\ key_idx = 1
  /\ last_request_time = 0
  /\ now = MinInterval
  /\ texts = <<>>
  /\ batch_size = DefaultBatchSize
  /\ bpc = "unconstructed"
  /\ batch_start = 0
  /\ embeddings = <<>>
  /\ epc = [i \in TextIdx |-> "none"]
  /\ wake = [i \in TextIdx |-> 0]
  /\ attempt = [i \in TextIdx |-> 0]
  /\ res = [i \in TextIdx |-> None]
  /\ sent = <<>>

NextEmbed ==
  \/ \E keys \in KeyConfigs : ConstructAgent(keys)
  \/ \E n \in 0..MaxTexts, bs \in BatchSizes : CallEmbedBatch(n, bs)
  \/ LaunchBatch
  \/ GatherDone
  \/ ReturnBatch
  \/ \E i \in TextIdx, ok \in BOOLEAN : StartEmbed(i, ok)
  \/ \E i \in TextIdx, ok \in BOOLEAN : WakeRateLimit(i, ok)
  \/ \E i \in TextIdx, ok \in BOOLEAN : WakeBackoff(i, ok)
  \/ AdvanceTime

(***************************************************************************)
(* Part 3.  RAGAgent.chat and the chat memory                              *)
(***************************************************************************)

\* Bound: number of chat calls
MaxTurns == 2

\* how many tokens generate_with_ollama_stream yields: none, or some
TokenCounts == {0, 1}

\* the callers that run chat turns concurrently (web UI, CLI)
ChatTasks == {"ui", "cli"}

\* session_id argument: None, or an id the caller made up (NiceGUIApp.send_message)
NoSession == <<>>
SuppliedIds == { <<"client", 1>> }

\* str(uuid.uuid4()) of the k-th chat call
Uuid(k) == <<"uuid", k>>

Query == <<"query">>
NoContextMsg == <<"I couldn't find any relevant information">>
EmptyMsg == <<"Ollama returned empty response">>
ErrorMsg == <<"An error occurred">>
Answer(n) == <<"ollama tokens", n>>

\* generate_with_gemini: the text it returns when the model answers, answers
\* nothing, or raises
GeminiOutcomes == {"text", "empty", "raises"}
generate_with_gemini(outcome) ==
  CASE outcome = "text" -> <<"gemini text">>
    [] outcome = "empty" -> <<"I apologize, but I couldn't generate a response.">>
    [] outcome = "raises" -> <<"I apologize, but I encountered an error.">>

\* INSERT OR IGNORE INTO chat_sessions (session_id, metadata)
create_session(sessions, sid) == sessions \cup {sid}

\* INSERT INTO chat_messages (session_id, role, content, metadata)
add_message(msgs, sid, role, content) ==
  Append(msgs, [session_id |-> sid, role |-> role, content |-> content])

RECURSIVE MessagesNotOf(_, _)
MessagesNotOf(msgs, sid) ==
  IF msgs = <<>> THEN <<>>
  ELSE IF Head(msgs).session_id = sid THEN MessagesNotOf(Tail(msgs), sid)
       ELSE <<Head(msgs)>> \o MessagesNotOf(Tail(msgs), sid)

\* DELETE FROM chat_messages WHERE session_id = ?
clear_session(msgs, sid) == MessagesNotOf(msgs, sid)

chat_after_generation_dropping(stream, n) ==
  IF stream THEN (IF n > 0 THEN "save_answer" ELSE "done")
  ELSE (IF n > 0 THEN "save_answer_ns" ELSE "save_final_ns")

\* where chat goes once generate_with_ollama_stream is exhausted, having
\* yielded n tokens
chat_after_generation(stream, n) ==
  IF stream THEN (IF n > 0 THEN "save_answer" ELSE "save_empty")
  ELSE (IF n > 0 THEN "save_answer_ns" ELSE "save_final_ns")

\* chat(query, session_id, stream) is called
StartChat(t, sid, stream) ==
  /\ tpc[t] = "idle"
  /\ turns < MaxTurns
  /\ turns' = turns + 1
  /\ tsid' = [tsid EXCEPT ![t] = IF sid = NoSession THEN Uuid(turns + 1) ELSE sid]
  /\ tpc' = [tpc EXCEPT ![t] = IF sid = NoSession THEN "create_session" ELSE "save_user"]
  /\ tstream' = [tstream EXCEPT ![t] = stream]
  /\ tctx' = [tctx EXCEPT ![t] = "none"]
  /\ ttokens' = [ttokens EXCEPT ![t] = 0]
  /\ tresp' = [tresp EXCEPT ![t] = <<>>]
  /\ tlog' = [tlog EXCEPT ![t] = <<>>]
  /\ UNCHANGED <<retrieverVars, pipeVars, callVars, jobVars, embedVars, chat_sessions, chat_messages>>

\* if not session_id: ... await storage.create_session(session_id)
CreateSession(t) ==
  /\ tpc[t] = "create_session"
  /\ chat_sessions' = create_session(chat_sessions, tsid[t])
  /\ tpc' = [tpc EXCEPT ![t] = "save_user"]
  /\ UNCHANGED <<retrieverVars, pipeVars, callVars, jobVars, embedVars, chat_messages, turns, tsid, tstream, tctx, ttokens,
                 tresp, tlog>>

\* await storage.add_message(session_id, "user", query)
SaveUserMessage(t) ==
  /\ tpc[t] = "save_user"
  /\ chat_messages' = add_message(chat_messages, tsid[t], "user", Query)
  /\ tlog' = [tlog EXCEPT ![t] = Append(@, <<"user">>)]
  /\ tpc' = [tpc EXCEPT ![t] = "retrieve"]
  /\ UNCHANGED <<retrieverVars, pipeVars, callVars, jobVars, embedVars, chat_sessions, turns, tsid, tstream, tctx, ttokens,
                 tresp>>

chat_after_retrieval_generating(outcome) ==
  CASE outcome = "found" -> "get_history"
    [] outcome = "empty" -> "get_history"
    [] outcome = "raised" -> "except"

\* where chat goes after retrieve_context: "if not context" takes the
\* no-context exit, an exception goes to the except clause
chat_after_retrieval(outcome) ==
  CASE outcome = "found" -> "get_history"
    [] outcome = "empty" -> "no_context"
    [] outcome = "raised" -> "except"

\* context = await self.retrieve_context(query): results, nothing, or an exception
RetrieveContext(t, outcome) ==
  /\ tpc[t] = "retrieve"
  /\ tctx' = [tctx EXCEPT ![t] = outcome]
  /\ tlog' = [tlog EXCEPT ![t] = Append(@, <<"retrieve">>)]
  /\ tpc' = [tpc EXCEPT ![t] = chat_after_retrieval(outcome)]
  /\ UNCHANGED <<retrieverVars, pipeVars, callVars, jobVars, embedVars, chat_sessions, chat_messages, turns, tsid, tstream,
                 ttokens, tresp>>

\* the assistant message is stored and the turn ends
PersistAndFinish(t, content) ==
  /\ chat_messages' = add_message(chat_messages, tsid[t], "assistant", content)
  /\ tlog' = [tlog EXCEPT ![t] = Append(@, <<"assistant", content>>)]
  /\ tpc' = [tpc EXCEPT ![t] = "done"]

\* if not context: yield the fixed response, store it, return
NoContext(t) ==
  /\ tpc[t] = "no_context"
  /\ tresp' = [tresp EXCEPT ![t] = NoContextMsg]
  /\ PersistAndFinish(t, NoContextMsg)
  /\ UNCHANGED <<retrieverVars, pipeVars, callVars, jobVars, embedVars, chat_sessions, turns, tsid, tstream, tctx, ttokens>>

\* history = await storage.get_session_messages(session_id, limit=10); build_prompt;
\* an exception raised here is caught by chat's except clause
GetHistory(t, raised) ==
  /\ tpc[t] = "get_history"
  /\ tpc' = [tpc EXCEPT ![t] = IF raised THEN "except" ELSE "generate"]
  /\ UNCHANGED <<retrieverVars, pipeVars, callVars, jobVars, embedVars, chat_sessions, chat_messages, turns, tsid, tstream,
                 tctx, ttokens, tresp, tlog>>

\* generate_with_ollama_stream(prompt) runs to its end, having yielded n tokens
\* (it catches its own exceptions and then yields nothing more)
Generate(t, n) ==
  /\ tpc[t] = "generate"
  /\ ttokens' = [ttokens EXCEPT ![t] = n]
  /\ tlog' = [tlog EXCEPT ![t] = Append(@, <<"generate">>)]
  /\ tresp' = [tresp EXCEPT ![t] = IF tstream[t] /\ n > 0 THEN Answer(n) ELSE <<>>]
  /\ tpc' = [tpc EXCEPT ![t] = chat_after_generation(tstream[t], n)]
  /\ UNCHANGED <<retrieverVars, pipeVars, callVars, jobVars, embedVars, chat_sessions, chat_messages, turns, tsid, tstream,
                 tctx>>

\* streaming, response_chunks non-empty: store the joined response
SaveAnswer(t) ==
  /\ tpc[t] = "save_answer"
  /\ PersistAndFinish(t, Answer(ttokens[t]))
  /\ UNCHANGED <<retrieverVars, pipeVars, callVars, jobVars, embedVars, chat_sessions, turns, tsid, tstream, tctx, ttokens,
                 tresp>>

\* streaming, no token: yield an error event and store "Ollama returned empty response"
SaveEmpty(t) ==
  /\ tpc[t] = "save_empty"
  /\ PersistAndFinish(t, EmptyMsg)
  /\ UNCHANGED <<retrieverVars, pipeVars, callVars, jobVars, embedVars, chat_sessions, turns, tsid, tstream, tctx, ttokens,
                 tresp>>

\* non-streaming, response_text non-empty: first add_message
SaveAnswerNonStreaming(t) ==
  /\ tpc[t] = "save_answer_ns"
  /\ chat_messages' = add_message(chat_messages, tsid[t], "assistant", Answer(ttokens[t]))
  /\ tlog' = [tlog EXCEPT ![t] = Append(@, <<"assistant", Answer(ttokens[t])>>)]
  /\ tpc' = [tpc EXCEPT ![t] = "save_final_ns"]
  /\ UNCHANGED <<retrieverVars, pipeVars, callVars, jobVars, embedVars, chat_sessions, turns, tsid, tstream, tctx, ttokens,
                 tresp>>

\* non-streaming: yield response_text (the answer, or the error text when no
\* token came) and store it
SaveFinalNonStreaming(t) ==
  /\ tpc[t] = "save_final_ns"
  /\ LET response_text == IF ttokens[t] > 0 THEN Answer(ttokens[t]) ELSE EmptyMsg
     IN /\ tresp' = [tresp EXCEPT ![t] = response_text]
        /\ PersistAndFinish(t, response_text)
  /\ UNCHANGED <<retrieverVars, pipeVars, callVars, jobVars, embedVars, chat_sessions, turns, tsid, tstream, tctx, ttokens>>

\* except Exception as e: yield an error event and store the error message
HandleException(t) ==
  /\ tpc[t] = "except"
  /\ PersistAndFinish(t, ErrorMsg)
  /\ UNCHANGED <<retrieverVars, pipeVars, callVars, jobVars, embedVars, chat_sessions, turns, tsid, tstream, tctx, ttokens,
                 tresp>>

\* the caller has consumed the generator: the call's locals are gone and the
\* task can serve another query
EndTurn(t) ==
  /\ tpc[t] = "done"
  /\ tpc' = [tpc EXCEPT ![t] = "idle"]
  /\ tsid' = [tsid EXCEPT ![t] = NoSession]
  /\ tstream' = [tstream EXCEPT ![t] = TRUE]
  /\ tctx' = [tctx EXCEPT ![t] = "none"]
  /\ ttokens' = [ttokens EXCEPT ![t] = 0]
  /\ tresp' = [tresp EXCEPT ![t] = <<>>]
  /\ tlog' = [tlog EXCEPT ![t] = <<>>]
  /\ UNCHANGED <<retrieverVars, pipeVars, callVars, jobVars, embedVars, chat_sessions, chat_messages, turns>>

\* NiceGUIApp.clear_chat: storage.clear_session(current_session_id), the id the
\* UI made up; it runs as its own task, also while a turn is in progress
ClearSession(sid) ==
  /\ \E k \in 1..Len(chat_messages) : chat_messages[k].session_id = sid
  /\ chat_messages' = clear_session(chat_messages, sid)
  /\ UNCHANGED <<retrieverVars, pipeVars, callVars, jobVars, embedVars, chat_sessions, turns, tpc, tsid, tstream, tctx,
                 ttokens, tresp, tlog>>

InitChat ==
  /\ chat_sessions = {}
  /\ chat_messages = <<>>
  /\ turns = 0
  /\ tpc = [t \in ChatTasks |-> "idle"]
  /\ tsid = [t \in ChatTasks |-> NoSession]
  /\ tstream = [t \in ChatTasks |-> TRUE]
  /\ tctx = [t \in ChatTasks |-> "none"]
  /\ ttokens = [t \in ChatTasks |-> 0]
  /\ tresp = [t \in ChatTasks |-> <<>>]
  /\ tlog = [t \in ChatTasks |-> <<>>]

NextChat ==
  \/ \E t \in ChatTasks, sid \in SuppliedIds \cup {NoSession}, stream \in BOOLEAN :
       StartChat(t, sid, stream)
  \/ \E t \in ChatTasks : CreateSession(t)
  \/ \E t \in ChatTasks : SaveUserMessage(t)
  \/ \E t \in ChatTasks, o \in {"found", "empty", "raised"} : RetrieveContext(t, o)
  \/ \E t \in ChatTasks : NoContext(t)
  \/ \E t \in ChatTasks, raised \in BOOLEAN : GetHistory(t, raised)
  \/ \E t \in ChatTasks, n \in TokenCounts : Generate(t, n)
  \/ \E t \in ChatTasks : SaveAnswer(t)
  \/ \E t \in ChatTasks : SaveEmpty(t)
  \/ \E t \in ChatTasks : SaveAnswerNonStreaming(t)
  \/ \E t \in ChatTasks : SaveFinalNonStreaming(t)
  \/ \E t \in ChatTasks : HandleException(t)
  \/ \E t \in ChatTasks : EndTurn(t)
  \/ \E sid \in SuppliedIds : ClearSession(sid)

(***************************************************************************)
(* Part 4.  Library functions called with arguments drawn from bounded sets *)
(***************************************************************************)

InitCall ==
  /\ fn = "none"
  /\ args = <<>>
  /\ result = <<>>

\* the call is over; the next one can be made
ReturnToCaller ==
  /\ fn # "none"
  /\ fn' = "none"
  /\ args' = <<>>
  /\ result' = <<>>
  /\ UNCHANGED <<retrieverVars, pipeVars, jobVars, embedVars, chatVars>>

----------------------------------------------------------------------------
\* chunking_agent.py.  A text is a sequence of tokens: a positive number is a
\* word (its number tells where in the input it stood), SentenceEnd is sentence
\* punctuation followed by whitespace (what [.!?]+\s+ matches), ParagraphBreak
\* is a run of blank lines (what \n\n+ matches).

\* Bound: length of the input text in tokens
MaxTextLen == 5

SentenceEnd == 0
ParagraphBreak == 0 - 1

\* max_tokens and overlap_tokens in force (config.chunk_size, config.chunk_overlap)
ChunkSizes == {2, 3}
Overlaps == {0, 1}

Shapes == UNION { [1..n -> {"word", "stop", "break"}] : n \in 0..MaxTextLen }

TextOf(shape) ==
  [i \in 1..Len(shape) |->
     CASE shape[i] = "word" -> i
       [] shape[i] = "stop" -> SentenceEnd
       [] shape[i] = "break" -> ParagraphBreak]

\* len(self.encoding.encode(text))
count_tokens(text) == Len(text)

\* re.split(sep, text) without capture group: the pieces between the separators
RECURSIVE re_split(_, _)
re_split(text, sep) ==
  IF text = <<>> THEN << <<>> >>
  ELSE LET rest == re_split(Tail(text), sep)
       IN IF Head(text) = sep
            THEN << <<>> >> \o rest
            ELSE << <<Head(text)>> \o rest[1] >> \o Tail(rest)

\* split_by_sentences: re.split with a capture group gives piece, separator,
\* piece, ..., piece; range(0, len(sentences) - 1, 2) visits every piece that
\* has a separator after it and joins the two
split_by_sentences(text) ==
  LET pieces == re_split(text, SentenceEnd)
  IN [j \in 1..(Len(pieces) - 1) |-> Append(pieces[j], SentenceEnd)]

\* prev_tokens[-n:]
LastTokens(tokens, n) ==
  SubSeq(tokens, IF Len(tokens) > n THEN Len(tokens) - n + 1 ELSE 1, Len(tokens))

\* the packing loop shared by the paragraph and the sentence branch
RECURSIVE PackUnits(_, _, _, _, _, _)
PackUnits(units, joiner, max_tokens, overlap_tokens, chunks, current_chunk) ==
  IF units = <<>>
    THEN IF current_chunk # <<>> THEN Append(chunks, current_chunk) ELSE chunks
  ELSE
    LET unit == Head(units)
        test_chunk == IF current_chunk # <<>> THEN current_chunk \o joiner \o unit
                      ELSE unit
        saved == IF current_chunk # <<>> THEN Append(chunks, current_chunk) ELSE chunks
    IN IF unit = <<>>
         THEN PackUnits(Tail(units), joiner, max_tokens, overlap_tokens, chunks,
                        current_chunk)
       ELSE IF count_tokens(test_chunk) <= max_tokens
         THEN PackUnits(Tail(units), joiner, max_tokens, overlap_tokens, chunks,
                        test_chunk)
       ELSE PackUnits(Tail(units), joiner, max_tokens, overlap_tokens, saved,
                      IF saved # <<>> /\ overlap_tokens > 0
                        THEN LastTokens(saved[Len(saved)], overlap_tokens) \o joiner \o unit
                        ELSE unit)

\* last resort: windows of max_tokens tokens, advancing max_tokens - overlap_tokens
RECURSIVE TokenWindows(_, _, _, _)
TokenWindows(tokens, i, max_tokens, overlap_tokens) ==
  IF i >= Len(tokens) THEN <<>>
  ELSE << SubSeq(tokens, i + 1, Min(i + max_tokens, Len(tokens))) >>
         \o TokenWindows(tokens, i + max_tokens - overlap_tokens, max_tokens,
                         overlap_tokens)

chunk_text_recursive(text, max_tokens, overlap_tokens) ==
  LET paragraphs == re_split(text, ParagraphBreak)
      sentences == split_by_sentences(text)
  IN IF count_tokens(text) <= max_tokens THEN << text >>
     ELSE IF Len(paragraphs) > 1
       THEN PackUnits(paragraphs, << ParagraphBreak >>, max_tokens, overlap_tokens,
                      <<>>, <<>>)
     ELSE IF Len(sentences) > 1
       THEN PackUnits(sentences, <<>>, max_tokens, overlap_tokens, <<>>, <<>>)
     ELSE TokenWindows(text, 0, max_tokens, overlap_tokens)

\* chunk_document: one Chunk per text chunk, numbered in order
chunk_document(text, max_tokens, overlap_tokens) ==
  LET text_chunks == chunk_text_recursive(text, max_tokens, overlap_tokens)
  IN [i \in 1..Len(text_chunks) |->
        [chunk_index |-> i - 1,
         text |-> text_chunks[i],
         token_count |-> count_tokens(text_chunks[i])]]

ChunkDocument(shape, max_tokens, overlap_tokens) ==
  /\ fn = "none"
  /\ fn' = "chunk_document"
  /\ args' = [text |-> TextOf(shape), max_tokens |-> max_tokens,
              overlap_tokens |-> overlap_tokens]
  /\ result' = chunk_document(TextOf(shape), max_tokens, overlap_tokens)
  /\ UNCHANGED <<retrieverVars, pipeVars, jobVars, embedVars, chatVars>>

NextChunk ==
  \/ /\ fn = "none"
     /\ \E shape \in Shapes, max_tokens \in ChunkSizes, overlap_tokens \in Overlaps :
          ChunkDocument(shape, max_tokens, overlap_tokens)
  \/ ReturnToCaller

----------------------------------------------------------------------------
\* retriever_agent.py.  A search hit is [chunk_id, score]; scores are whole
\* numbers, the weights are the configured ones in tenths, and a reciprocal
\* rank is kept exact by scaling it with RRFScale.

\* Bound: largest top_k asked for
MaxTopK == 2

DenseWeight == 6     \* config.dense_weight = 0.6
KeywordWeight == 4   \* config.keyword_weight = 0.4
RRF_K == 60          \* k = 60  # RRF constant

\* a common multiple of RRF_K + rank + 1 for every rank that occurs
RRFScale == 61 * 62 * 63 * 64 * 65

\* the chunks in the collection
ChunkIds == {"c1", "c2", "c3"}
Scores == {1, 2}
TopKs == 1..MaxTopK
FusionMethods == {"weighted", "rrf"}

IdsOf(results) == { results[k].chunk_id : k \in 1..Len(results) }

NonIncreasing(results) ==
  \A k \in 1..(Len(results) - 1) : results[k].score >= results[k + 1].score

DistinctIds(results) ==
  \A j, k \in 1..Len(results) : results[j].chunk_id = results[k].chunk_id => j = k

\* what qdrant_client.search and the BM25 ranking return: one hit per point,
\* best score first (a point's id is derived from its chunk_id)
HitLists ==
  { h \in UNION { [1..n -> [chunk_id : ChunkIds, score : Scores]] : n \in 0..Cardinality(ChunkIds) } :
      DistinctIds(h) /\ NonIncreasing(h) }

\* results[:top_k]
Truncate_skipped(results, top_k) == results

Truncate(results, top_k) == SubSeq(results, 1, Min(top_k, Len(results)))

\* sorted(..., key=lambda x: x.score, reverse=True): stable, best score first
RECURSIVE InsertByScore(_, _)
InsertByScore(sorted, x) ==
  IF sorted = <<>> THEN << x >>
  ELSE IF Head(sorted).score >= x.score
    THEN << Head(sorted) >> \o InsertByScore(Tail(sorted), x)
  ELSE << x >> \o sorted

RECURSIVE SortByScore(_, _)
SortByScore(sorted, rest) ==
  IF rest = <<>> THEN sorted
  ELSE SortByScore(InsertByScore(sorted, Head(rest)), Tail(rest))

\* score=result.score * weight
WeightedScores(results, weight) ==
  [k \in 1..Len(results) |->
     [chunk_id |-> results[k].chunk_id, score |-> results[k].score * weight]]

\* for rank, result in enumerate(results): score = 1.0 / (k + rank + 1)
RankScores(results) ==
  [k \in 1..Len(results) |->
     [chunk_id |-> results[k].chunk_id, score |-> RRFScale \div (RRF_K + (k - 1) + 1)]]

combine_replacing(score, contribution) == contribution

\* result_map[result.chunk_id].score += contribution
combine(score, contribution) == score + contribution

\* the second loop over the sparse results: add to the entry of a chunk_id
\* already in result_map, else insert a new entry
RECURSIVE MergeInto(_, _)
MergeInto(result_map, rest) ==
  IF rest = <<>> THEN result_map
  ELSE LET r == Head(rest)
       IN MergeInto(
            IF r.chunk_id \in IdsOf(result_map)
              THEN [k \in 1..Len(result_map) |->
                      IF result_map[k].chunk_id = r.chunk_id
                        THEN [result_map[k] EXCEPT !.score = combine(@, r.score)]
                        ELSE result_map[k]]
              ELSE Append(result_map, r),
            Tail(rest))

fuse_results(dense_results, sparse_results, method) ==
  IF method = "weighted"
    THEN SortByScore(<<>>, MergeInto(WeightedScores(dense_results, DenseWeight),
                                     WeightedScores(sparse_results, KeywordWeight)))
    ELSE SortByScore(<<>>, MergeInto(RankScores(dense_results),
                                     RankScores(sparse_results)))

\* the searches retrieve runs
retrieve_searches(embed_ok, enable_bm25) ==
  IF ~embed_ok THEN {}
  ELSE IF enable_bm25 THEN {"dense", "sparse"} ELSE {"dense"}

retrieve(embed_ok, dense_results, sparse_results, enable_bm25, method, top_k) ==
  IF ~embed_ok THEN <<>>
  ELSE Truncate(IF enable_bm25 THEN fuse_results(dense_results, sparse_results, method)
                ELSE dense_results,
                top_k)

\* retrieve(query, top_k): embed_ok tells whether embed_query returned a vector,
\* dense and sparse are what the two searches (limit top_k * 2) return
Retrieve(embed_ok, dense, sparse, enable_bm25, method, top_k) ==
  /\ fn = "none"
  /\ Len(dense) <= top_k * 2
  /\ Len(sparse) <= top_k * 2
  /\ fn' = "retrieve"
  /\ args' = [embed_ok |-> embed_ok, dense |-> dense, sparse |-> sparse,
              enable_bm25 |-> enable_bm25, method |-> method, top_k |-> top_k]
  /\ result' = [results |-> retrieve(embed_ok, dense, sparse, enable_bm25, method, top_k),
                searches |-> retrieve_searches(embed_ok, enable_bm25)]
  /\ UNCHANGED <<retrieverVars, pipeVars, jobVars, embedVars, chatVars>>

FuseResults(dense, sparse, method) ==
  /\ fn = "none"
  /\ fn' = "fuse_results"
  /\ args' = [dense |-> dense, sparse |-> sparse, method |-> method]
  /\ result' = fuse_results(dense, sparse, method)
  /\ UNCHANGED <<retrieverVars, pipeVars, jobVars, embedVars, chatVars>>

NextRetrieve ==
  \/ /\ fn = "none"
     /\ \E embed_ok, enable_bm25 \in BOOLEAN, dense, sparse \in HitLists,
           method \in FusionMethods, top_k \in TopKs :
          Retrieve(embed_ok, dense, sparse, enable_bm25, method, top_k)
  \/ /\ fn = "none"
     /\ \E dense, sparse \in HitLists, method \in FusionMethods :
          FuseResults(dense, sparse, method)
  \/ ReturnToCaller

----------------------------------------------------------------------------
\* reranker_agent.py.  The candidates are numbered 1..n in input order.  The
\* first line of the judge's text is a sequence of whitespace-separated tokens:
\* a decimal number, a word (str.isdigit() is False), or digits that are not
\* decimal such as a superscript two (isdigit() is True, int() raises).

\* Bound: number of candidates handed to the reranker
MaxCandidates == 3

\* Bound: number of tokens on the first line of the judge's response
MaxResponseLen == 3

JudgeTokens ==
  [kind : {"decimal"}, value : 0..MaxCandidates]
    \cup { [kind |-> "word", value |-> 0], [kind |-> "nondecimal", value |-> 0] }

JudgeLines == UNION { [1..n -> JudgeTokens] : n \in 0..MaxResponseLen }

\* what model.generate_content gives: an exception, empty text, or text
JudgeOutcomes ==
  { [kind |-> "raises", line |-> <<>>], [kind |-> "empty", line |-> <<>>] }
    \cup [kind : {"text"}, line : JudgeLines]

CandidateLists == { [k \in 1..n |-> k] : n \in 1..MaxCandidates }

IsDigit(token) == token.kind \in {"decimal", "nondecimal"}

\* indices = [int(i) for i in indices_str.split() if i.isdigit()]
ParsedIndices(line) ==
  LET digits == SelectSeq(line, IsDigit)
  IN [k \in 1..Len(digits) |-> digits[k].value]

\* for idx in indices: if 0 <= idx < len(results): reranked.append(results[idx])
RECURSIVE NamedByJudge(_, _)
NamedByJudge(indices, results) ==
  IF indices = <<>> THEN <<>>
  ELSE (IF 0 <= Head(indices) /\ Head(indices) < Len(results)
          THEN << results[Head(indices) + 1] >> ELSE <<>>)
       \o NamedByJudge(Tail(indices), results)

\* for i, result in enumerate(results): if i not in indices: reranked.append(result)
RECURSIVE MissingFrom(_, _, _)
MissingFrom(indices, results, i) ==
  IF i >= Len(results) THEN <<>>
  ELSE (IF \E k \in 1..Len(indices) : indices[k] = i THEN <<>> ELSE << results[i + 1] >>)
       \o MissingFrom(indices, results, i + 1)

parse_reranking_response(line, results) ==
  IF \E k \in 1..Len(line) : line[k].kind = "nondecimal"
    THEN results    \* int() raises: except Exception: return results
    ELSE NamedByJudge(ParsedIndices(line), results)
           \o MissingFrom(ParsedIndices(line), results, 0)

rerank_fallback_nothing(results, top_k) == <<>>

\* return results[:top_k] on an empty response and in the except clause
rerank_fallback(results, top_k) == Truncate(results, top_k)

rerank_with_gemini(results, judge, top_k) ==
  IF results = <<>> THEN <<>>
  ELSE IF judge.kind \in {"raises", "empty"} THEN rerank_fallback(results, top_k)
  ELSE Truncate(parse_reranking_response(judge.line, results), top_k)

ParseRerankingResponse(line, results) ==
  /\ fn = "none"
  /\ fn' = "_parse_reranking_response"
  /\ args' = [line |-> line, results |-> results]
  /\ result' = parse_reranking_response(line, results)
  /\ UNCHANGED <<retrieverVars, pipeVars, jobVars, embedVars, chatVars>>

RerankWithGemini(results, judge, top_k) ==
  /\ fn = "none"
  /\ fn' = "rerank_with_gemini"
  /\ args' = [results |-> results, judge |-> judge, top_k |-> top_k]
  /\ result' = rerank_with_gemini(results, judge, top_k)
  /\ UNCHANGED <<retrieverVars, pipeVars, jobVars, embedVars, chatVars>>

NextRerank ==
  \/ /\ fn = "none"
     /\ \E line \in JudgeLines, results \in CandidateLists :
          ParseRerankingResponse(line, results)
  \/ /\ fn = "none"
     /\ \E results \in CandidateLists \cup {<<>>}, judge \in JudgeOutcomes, top_k \in TopKs :
          RerankWithGemini(results, judge, top_k)
  \/ ReturnToCaller

----------------------------------------------------------------------------
\* decomposition_agent.py.  A string is [letters, casing]: two strings with the
\* same letters differ at most in upper and lower case.  The line "no" stands
\* for a line of at most 10 characters; numbering, bullets and quotes are taken
\* as already stripped.

\* Bound: number of lines in a provider's response
MaxLines == 5

SimpleQueryWords == 8   \* if len(query.split()) < 8
MaxSubQueries == 4      \* return sub_queries[:4]

OriginalQuery == [letters |-> "query", casing |-> "mixed"]

LineTexts ==
  [letters : {"query", "a"}, casing : {"lower", "mixed"}]
    \cup [letters : {"b", "c", "d", "no"}, casing : {"lower"}]

LineLists == UNION { [1..n -> LineTexts] : n \in 0..MaxLines }

\* what a provider gives: no usable response (exception, HTTP status other than
\* 200, empty text), or the lines of its response text
ProviderOutcomes == { [kind |-> "failed", lines |-> <<>>] } \cup [kind : {"text"}, lines : LineLists]

WordCounts == {SimpleQueryWords - 1, SimpleQueryWords}

lower_unchanged(string) == string

\* str.lower()
lower(string) == [letters |-> string.letters, casing |-> "lower"]

\* if line and len(line) > 10
IsSubQuery(line) == line.letters # "no"

\* _parse_sub_queries: the lines longer than 10 characters, at most 4 of them
parse_sub_queries(lines) == Truncate(SelectSeq(lines, IsSubQuery), MaxSubQueries)

\* decompose_with_ollama / decompose_with_gemini: None, or the parsed lines
decompose_with(outcome) ==
  IF outcome.kind = "failed" THEN <<>> ELSE parse_sub_queries(outcome.lines)

\* remove duplicates while preserving order: seen holds q.lower()
RECURSIVE UniqueQueries(_, _, _)
UniqueQueries(all_queries, seen, unique_queries) ==
  IF all_queries = <<>> THEN unique_queries
  ELSE LET q == Head(all_queries)
       IN IF lower(q) \in seen
            THEN UniqueQueries(Tail(all_queries), seen, unique_queries)
            ELSE UniqueQueries(Tail(all_queries), seen \cup {lower(q)},
                               Append(unique_queries, q))

\* the end of decompose_query, from "if not sub_queries" on
decompose_result(query, sub_queries) ==
  IF sub_queries = <<>> THEN << query >>
  ELSE UniqueQueries(<< query >> \o sub_queries, {}, <<>>)

\* decompose_query is called: it returns at once when decomposition is switched
\* off or the query has fewer than 8 words, else it asks the primary provider
DecomposeQuery(words, enable_decomposition) ==
  /\ fn = "none"
  /\ fn' = "decompose_query"
  /\ LET simple == ~enable_decomposition \/ words < SimpleQueryWords
     IN /\ args' = [query |-> OriginalQuery, words |-> words,
                    enable_decomposition |-> enable_decomposition,
                    stage |-> IF simple THEN "returned" ELSE "ollama",
                    asked |-> <<>>]
        /\ result' = IF simple THEN << OriginalQuery >> ELSE <<>>
  /\ UNCHANGED <<retrieverVars, pipeVars, jobVars, embedVars, chatVars>>

\* sub_queries = await self.decompose_with_ollama(query)
OllamaDecomposes(outcome) ==
  /\ fn = "decompose_query"
  /\ args.stage = "ollama"
  /\ LET sub_queries == decompose_with(outcome)
     IN /\ args' = [args EXCEPT !.stage = IF sub_queries # <<>> THEN "returned" ELSE "gemini",
                                !.asked = Append(@, outcome)]
        /\ result' = IF sub_queries # <<>> THEN decompose_result(args.query, sub_queries)
                     ELSE <<>>
  /\ UNCHANGED <<retrieverVars, pipeVars, fn, jobVars, embedVars, chatVars>>

\* sub_queries = self.decompose_with_gemini(query), and the rest of decompose_query
GeminiDecomposes(outcome) ==
  /\ fn = "decompose_query"
  /\ args.stage = "gemini"
  /\ args' = [args EXCEPT !.stage = "returned", !.asked = Append(@, outcome)]
  /\ result' = decompose_result(args.query, decompose_with(outcome))
  /\ UNCHANGED <<retrieverVars, pipeVars, fn, jobVars, embedVars, chatVars>>

NextDecompose ==
  \/ /\ fn = "none"
     /\ \E words \in WordCounts, enable_decomposition \in BOOLEAN :
          DecomposeQuery(words, enable_decomposition)
  \/ /\ fn = "decompose_query"
     /\ args.stage = "ollama"
     /\ \E outcome \in ProviderOutcomes : OllamaDecomposes(outcome)
  \/ /\ fn = "decompose_query"
     /\ args.stage = "gemini"
     /\ \E outcome \in ProviderOutcomes : GeminiDecomposes(outcome)
  \/ ReturnToCaller

----------------------------------------------------------------------------
\* ingestion_agent.py: scan_existing_files over a directory listing, one
\* process_new_file after the other.

\* Bound: number of files the scan finds
MaxScan == 2

\* files the incoming directories may hold: the same bytes can lie under two
\* names and in two language directories; two different contents can agree in
\* the first 8 hex digits of their digest
ScannedFiles ==
  [language : {"en", "zh"}, stem : {"report", "copy"},
   sha256 : { <<"ab12cd34", "t1">>, <<"ab12cd34", "t9">>, <<"ef56ab78", "t2">> }]

Listings == UNION { [1..n -> ScannedFiles] : n \in 0..MaxScan }

\* process_new_file without interleaving: skip when get_job finds the doc_id,
\* else add_job
process_new_file(js, f) ==
  IF get_job(js, generate_doc_id(f)) # NoJob THEN js
  ELSE add_job(js, generate_doc_id(f), dest_path(generate_doc_id(f)), f.language)

\* for pdf_file in pdf_files: await self.process_new_file(pdf_file)
RECURSIVE scan_existing_files(_, _)
scan_existing_files(js, pdf_files) ==
  IF pdf_files = <<>> THEN js
  ELSE scan_existing_files(process_new_file(js, Head(pdf_files)), Tail(pdf_files))

ScanExistingFiles(pdf_files) ==
  /\ fn = "none"
  /\ fn' = "scan_existing_files"
  /\ args' = [pdf_files |-> pdf_files]
  /\ result' = scan_existing_files(<<>>, pdf_files)
  /\ UNCHANGED <<retrieverVars, pipeVars, jobVars, embedVars, chatVars>>

NextScan ==
  \/ /\ fn = "none"
     /\ \E pdf_files \in Listings : ScanExistingFiles(pdf_files)
  \/ ReturnToCaller

----------------------------------------------------------------------------
\* embedding_agent.py: ensure_collection against the vector database.  The
\* database is [exists, indexes]; a call can fail at any of its requests.

\* Bound: number of ensure_collection calls made one after the other
MaxCalls == 3

NoCollection == [exists |-> FALSE, indexes |-> {}]

\* the requests of ensure_collection, in the order it issues them
EnsureRequests == <<"get_collections", "create_collection", "doc_id", "language", "page_num">>

\* the request that fails in a call, or "none"
FailPoints == {"none"} \cup { EnsureRequests[k] : k \in 1..Len(EnsureRequests) }

\* the payload indexes created before the request at position k is issued
IndexesBefore(k) == { EnsureRequests[j] : j \in 3..(k - 1) }

RequestNumber(request) == CHOOSE k \in 1..Len(EnsureRequests) : EnsureRequests[k] = request

\* one call: the database it leaves and whether it raised
ensure_collection(db, fail_at) ==
  IF fail_at = "get_collections" THEN [db |-> db, raised |-> TRUE]
  ELSE IF db.exists THEN [db |-> db, raised |-> FALSE]    \* "already exists"
  ELSE IF fail_at = "create_collection" THEN [db |-> db, raised |-> TRUE]
  ELSE IF fail_at = "none"
    THEN [db |-> [exists |-> TRUE, indexes |-> IndexesBefore(Len(EnsureRequests) + 1)],
          raised |-> FALSE]
  ELSE [db |-> [exists |-> TRUE, indexes |-> IndexesBefore(RequestNumber(fail_at))],
        raised |-> TRUE]

\* calls made one after the other, each on the database the previous one left
RECURSIVE EnsureRuns(_, _)
EnsureRuns(db, fails) ==
  IF fails = <<>> THEN <<>>
  ELSE << ensure_collection(db, Head(fails)) >>
         \o EnsureRuns(ensure_collection(db, Head(fails)).db, Tail(fails))

EnsureCollection(fails) ==
  /\ fn = "none"
  /\ fn' = "ensure_collection"
  /\ args' = [fails |-> fails]
  /\ result' = EnsureRuns(NoCollection, fails)
  /\ UNCHANGED <<retrieverVars, pipeVars, jobVars, embedVars, chatVars>>

NextEnsure ==
  \/ /\ fn = "none"
     /\ \E fails \in UNION { [1..n -> FailPoints] : n \in 1..MaxCalls } :
          EnsureCollection(fails)
  \/ ReturnToCaller

----------------------------------------------------------------------------
\* rag_agent.py: the chat history a turn puts into its prompt.  The stored
\* messages of the session, oldest first, are those of earlier turns, the
\* turn's own user message, and what other turns on the same session appended
\* between this turn's add_message and its get_session_messages.

\* Bound: number of earlier turns on the session
MaxPriorTurns == 4

\* Bound: number of messages other turns appended after the turn's own message
MaxInterleaved == 2

HistoryLimit == 10    \* get_session_messages(session_id, limit=10)
PromptMessages == 5   \* chat_history[-5:]

\* the roles of the messages a finished or abandoned turn leaves: a turn cut
\* off after its user message, a turn with its answer, or a non-streaming turn
\* whose answer was stored twice
TurnKinds == { <<"user">>, <<"user", "assistant">>, <<"user", "assistant", "assistant">> }

RECURSIVE Flatten(_)
Flatten(seqs) == IF seqs = <<>> THEN <<>> ELSE Head(seqs) \o Flatten(Tail(seqs))

\* rows of chat_messages of one session, in id order
StoredMessages(prior_turns, interleaved) ==
  LET roles == Flatten(prior_turns) \o <<"user">> \o [k \in 1..interleaved |-> "user"]
  IN [k \in 1..Len(roles) |-> [id |-> k, role |-> roles[k]]]

\* SELECT ... WHERE session_id = ? ORDER BY created_at LIMIT {limit}
get_session_messages(stored, limit) == Limit(stored, limit)

\* history[:-1]  # Exclude current message
chat_history(stored) ==
  LET history == get_session_messages(stored, HistoryLimit)
  IN SubSeq(history, 1, Len(history) - 1)

\* for msg in chat_history[-5:]
prompt_history(history) ==
  SubSeq(history, IF Len(history) > PromptMessages THEN Len(history) - PromptMessages + 1 ELSE 1,
         Len(history))

\* the turn reaches get_session_messages and build_prompt
BuildPromptHistory(prior_turns, interleaved) ==
  /\ fn = "none"
  /\ fn' = "build_prompt"
  /\ args' = [stored |-> StoredMessages(prior_turns, interleaved),
              own |-> Len(Flatten(prior_turns)) + 1]
  /\ result' = prompt_history(chat_history(StoredMessages(prior_turns, interleaved)))
  /\ UNCHANGED <<retrieverVars, pipeVars, jobVars, embedVars, chatVars>>

NextHistory ==
  \/ /\ fn = "none"
     /\ \E prior_turns \in UNION { [1..n -> TurnKinds] : n \in 0..MaxPriorTurns },
           interleaved \in 0..MaxInterleaved :
          BuildPromptHistory(prior_turns, interleaved)
  \/ ReturnToCaller

----------------------------------------------------------------------------
\* main.py: start_processing, stop_processing and the process_queue tasks of
\* one pipeline.  The tasks of one event loop interleave at their awaits.

\* Bound: number of start_processing calls
MaxStarts == 2

\* what the incoming directories hold when start_processing scans them
IncomingListings ==
  { l \in UNION { [1..n -> Files] : n \in 0..Cardinality(Files) } :
      \A j, k \in 1..Len(l) : l[j] = l[k] => j = k }

\* self.processing = False in __init__; no task yet
InitPipeline ==
  /\ processing = FALSE
  /\ loops = <<>>
  /\ ingest = [pc |-> "idle", pdf_files |-> <<>>]

\* self.processing = True; asyncio.create_task(self.process_queue());
\* await self.ingestion_agent.scan_existing_files()
StartProcessing(pdf_files) ==
  /\ Len(loops) < MaxStarts
  /\ processing' = TRUE
  /\ loops' = Append(loops, [pc |-> "while", job |-> NoJob])
  /\ jobs' = scan_existing_files(jobs, pdf_files)
  /\ UNCHANGED <<retrieverVars, ingest, callVars, embedVars, chatVars, points, wpc, held, err, ipc, ifile, enqueues, hist>>

\* self.processing = False
StopProcessing ==
  /\ processing' = FALSE
  /\ UNCHANGED <<retrieverVars, ingest, loops, callVars, jobVars, embedVars, chatVars>>

\* while self.processing: the task goes on to get_next_job, or returns
LoopTest(t) ==
  /\ loops[t].pc = "while"
  /\ loops' = [loops EXCEPT ![t].pc = IF processing THEN "get_next_job" ELSE "returned"]
  /\ UNCHANGED <<retrieverVars, ingest, processing, callVars, jobVars, embedVars, chatVars>>

\* jobs = await storage.get_pending_jobs(limit=1); without a job the task
\* goes to asyncio.sleep(5)
LoopSelect(t) ==
  /\ loops[t].pc = "get_next_job"
  /\ loops' = [loops EXCEPT ![t] =
                 IF get_pending_jobs(jobs, 1) = <<>>
                   THEN [pc |-> "sleep", job |-> NoJob]
                   ELSE [pc |-> "update_job_status", job |-> get_pending_jobs(jobs, 1)[1].doc_id]]
  /\ UNCHANGED <<retrieverVars, ingest, processing, callVars, jobVars, embedVars, chatVars>>

\* await storage.update_job_status(job['doc_id'], PROCESSING); return job
LoopClaim(t) ==
  /\ loops[t].pc = "update_job_status"
  /\ jobs' = update_job_status(jobs, loops[t].job, PROCESSING, NoError)
  /\ loops' = [loops EXCEPT ![t].pc = "process_document"]
  /\ UNCHANGED <<retrieverVars, ingest, processing, callVars, embedVars, chatVars, points, wpc, held, err, ipc, ifile, enqueues, hist>>

\* await self.process_document(job): it ends in mark_job_completed or in
\* mark_job_failed, and the task is back at the top of its loop
LoopDocument(t, status) ==
  /\ loops[t].pc = "process_document"
  /\ jobs' = update_job_status(jobs, loops[t].job, status,
                               IF status = FAILED THEN StageError("ocr") ELSE NoError)
  /\ loops' = [loops EXCEPT ![t] = [pc |-> "while", job |-> NoJob]]
  /\ UNCHANGED <<retrieverVars, ingest, processing, callVars, embedVars, chatVars, points, wpc, held, err, ipc, ifile, enqueues, hist>>

\* asyncio.sleep(5) is over
LoopWake(t) ==
  /\ loops[t].pc = "sleep"
  /\ loops' = [loops EXCEPT ![t].pc = "while"]
  /\ UNCHANGED <<retrieverVars, ingest, processing, callVars, jobVars, embedVars, chatVars>>

NextPipeline ==
  \/ \E pdf_files \in IncomingListings : StartProcessing(pdf_files)
  \/ StopProcessing
  \/ \E t \in 1..Len(loops) : LoopTest(t)
  \/ \E t \in 1..Len(loops) : LoopSelect(t)
  \/ \E t \in 1..Len(loops) : LoopClaim(t)
  \/ \E t \in 1..Len(loops), status \in Terminal : LoopDocument(t, status)
  \/ \E t \in 1..Len(loops) : LoopWake(t)

----------------------------------------------------------------------------
\* retriever_agent.py: sparse_search over the BM25 index.  A document of the
\* index is its payload and the BM25 score the query gives it.

\* Bound: number of documents in the BM25 index
MaxDocs == 3

Languages == {"bn", "en"}

IndexedDocs == [language : Languages, score : 0..2]

Indexes == UNION { [1..n -> IndexedDocs] : n \in 0..MaxDocs }

\* a metadata filter, as its set of (key, value) items; {} is None
MetadataFilters == { {}, {<<"language", "bn">>} }

\* all(doc.get(k) == v for k, v in metadata_filter.items())
Matches(doc, metadata_filter) == \A kv \in metadata_filter : doc[kv[1]] = kv[2]

\* sorted(range(len(scores)), key=lambda i: scores[i], reverse=True): the
\* sort is stable, equal scores stay in index order
SortedIndices(docs) ==
  LET before(i, j) == docs[i].score > docs[j].score \/ (docs[i].score = docs[j].score /\ i < j)
      place(i) == 1 + Cardinality({ j \in 1..Len(docs) : before(j, i) })
  IN [p \in 1..Len(docs) |-> CHOOSE i \in 1..Len(docs) : place(i) = p]

\* the loop over top_indices: a document failing the filter is skipped
RECURSIVE BuildResults(_, _, _)
BuildResults(docs, indices, skip) ==
  IF indices = <<>> THEN <<>>
  ELSE IF skip[Head(indices)] THEN BuildResults(docs, Tail(indices), skip)
       ELSE <<[chunk_id |-> Head(indices), language |-> docs[Head(indices)].language,
               score |-> docs[Head(indices)].score]>>
            \o BuildResults(docs, Tail(indices), skip)

sparse_search(docs, top_k, metadata_filter, enable_metadata_filter) ==
  IF docs = <<>> THEN <<>>
  ELSE LET top_indices == Limit(SortedIndices(docs), top_k)
           skip == [i \in 1..Len(docs) |->
                      /\ metadata_filter # {} /\ enable_metadata_filter
                      /\ ~Matches(docs[i], metadata_filter)]
       IN Limit(BuildResults(docs, top_indices, skip), top_k)

SparseSearch(docs, top_k, metadata_filter, enable_metadata_filter) ==
  /\ fn' = "sparse_search"
  /\ args' = [docs |-> docs, top_k |-> top_k, metadata_filter |-> metadata_filter,
              enable_metadata_filter |-> enable_metadata_filter]
  /\ result' = sparse_search(docs, top_k, metadata_filter, enable_metadata_filter)
  /\ UNCHANGED <<retrieverVars, pipeVars, jobVars, embedVars, chatVars>>

NextSparse ==
  \/ /\ fn = "none"
     /\ \E docs \in Indexes, top_k \in TopKs, metadata_filter \in MetadataFilters,
           enable_metadata_filter \in BOOLEAN :
          SparseSearch(docs, top_k, metadata_filter, enable_metadata_filter)
  \/ ReturnToCaller

----------------------------------------------------------------------------
\* metadata_filter_agent.py: extract_language_filter.  A string is the
\* sequence of its characters; a query is words joined by single spaces.

\* Bound: number of words in a query
MaxWords == 3

Vocabulary ==
  { <<"B", "e", "n", "g", "a", "l", "i">>,
    <<"b", "n">>,
    <<"U", "r", "d", "u">>,
    <<"d", "o", "c", "u", "m", "e", "n", "t", "s">>,
    <<"i", "n">>,
    <<"S", "h", "o", "w">>,
    <<"m", "a", "p">> }

QueryWords == UNION { [1..n -> Vocabulary] : n \in 1..MaxWords }

\* self.supported_languages, in list order
supported_languages ==
  << <<"e", "n">>,
     <<"z", "h">>,
     <<"h", "i">>,
     <<"b", "n">>,
     <<"u", "r">>,
     <<"e", "n", "g", "l", "i", "s", "h">>,
     <<"c", "h", "i", "n", "e", "s", "e">>,
     <<"h", "i", "n", "d", "i">>,
     <<"b", "e", "n", "g", "a", "l", "i">>,
     <<"u", "r", "d", "u">> >>

\* self.language_map.get(lang, lang)
language_map(lang) ==
  CASE lang = <<"e", "n", "g", "l", "i", "s", "h">> -> <<"e", "n">>
    [] lang = <<"c", "h", "i", "n", "e", "s", "e">> -> <<"z", "h">>
    [] lang = <<"h", "i", "n", "d", "i">> -> <<"h", "i">>
    [] lang = <<"b", "e", "n", "g", "a", "l", "i">> -> <<"b", "n">>
    [] lang = <<"u", "r", "d", "u">> -> <<"u", "r">>
    [] OTHER -> lang

UpperCase == <<"B", "U", "S">>
LowerCase == <<"b", "u", "s">>

\* str.lower()
to_lower(string) ==
  [k \in 1..Len(string) |->
     IF \E u \in 1..Len(UpperCase) : UpperCase[u] = string[k]
       THEN LowerCase[CHOOSE u \in 1..Len(UpperCase) : UpperCase[u] = string[k]]
       ELSE string[k]]

\* " ".join(words)
RECURSIVE JoinWords(_)
JoinWords(words) ==
  IF Len(words) = 1 THEN words[1] ELSE words[1] \o <<" ">> \o JoinWords(Tail(words))

\* sub in string
Contains(string, sub) ==
  \E i \in 0..(Len(string) - Len(sub)) : SubSeq(string, i + 1, i + Len(sub)) = sub

\* None
NoLanguage == <<>>

\* the first entry of supported_languages found in query.lower(), mapped to
\* its code; the code is returned when it has two characters
extract_language_filter(query) ==
  LET query_lower == to_lower(query)
      found == { k \in 1..Len(supported_languages) :
                   /\ Contains(query_lower, supported_languages[k])
                   /\ Len(language_map(supported_languages[k])) = 2 }
  IN IF found = {} THEN NoLanguage
     ELSE language_map(supported_languages[CHOOSE k \in found : \A j \in found : k <= j])

ExtractLanguageFilter(words) ==
  /\ fn' = "extract_language_filter"
  /\ args' = [words |-> words, query |-> JoinWords(words)]
  /\ result' = extract_language_filter(JoinWords(words))
  /\ UNCHANGED <<retrieverVars, pipeVars, jobVars, embedVars, chatVars>>

NextFilter ==
  \/ /\ fn = "none"
     /\ \E words \in QueryWords : ExtractLanguageFilter(words)
  \/ ReturnToCaller

----------------------------------------------------------------------------
\* cli.py: ingest_documents on a pipeline of its own.  When it returns,
\* asyncio.run cancels the process_queue task.

\* the PDFs are copied to the incoming directory (they stay there) and
\* await pipeline.ingestion_agent.scan_existing_files() queues them
IngestScan(pdf_files) ==
  /\ ingest.pc = "idle"
  /\ jobs' = scan_existing_files(jobs, pdf_files)
  /\ ingest' = [pc |-> "start_processing", pdf_files |-> pdf_files]
  /\ UNCHANGED <<retrieverVars, processing, loops, callVars, embedVars, chatVars, points, wpc, held, err, ipc, ifile,
                 enqueues, hist>>

\* await pipeline.start_processing()
IngestStart ==
  /\ ingest.pc = "start_processing"
  /\ processing' = TRUE
  /\ loops' = Append(loops, [pc |-> "while", job |-> NoJob])
  /\ jobs' = scan_existing_files(jobs, ingest.pdf_files)
  /\ ingest' = [ingest EXCEPT !.pc = "get_pending_jobs"]
  /\ UNCHANGED <<retrieverVars, callVars, embedVars, chatVars, points, wpc, held, err, ipc, ifile, enqueues, hist>>

\* jobs = await storage.get_pending_jobs(limit=1); if not jobs: break,
\* else asyncio.sleep(5)
IngestPoll ==
  /\ ingest.pc = "get_pending_jobs"
  /\ ingest' = [ingest EXCEPT !.pc = IF get_pending_jobs(jobs, 1) = <<>> THEN "returned" ELSE "sleep"]
  /\ UNCHANGED <<retrieverVars, processing, loops, callVars, jobVars, embedVars, chatVars>>

\* asyncio.sleep(5) is over
IngestWake ==
  /\ ingest.pc = "sleep"
  /\ ingest' = [ingest EXCEPT !.pc = "get_pending_jobs"]
  /\ UNCHANGED <<retrieverVars, processing, loops, callVars, jobVars, embedVars, chatVars>>

NextIngest ==
  \/ \E pdf_files \in IncomingListings : IngestScan(pdf_files)
  \/ IngestStart
  \/ IngestPoll
  \/ IngestWake
  \/ ingest.pc # "returned" /\ \E t \in 1..Len(loops) : LoopTest(t)
  \/ ingest.pc # "returned" /\ \E t \in 1..Len(loops) : LoopSelect(t)
  \/ ingest.pc # "returned" /\ \E t \in 1..Len(loops) : LoopClaim(t)
  \/ ingest.pc # "returned" /\ \E t \in 1..Len(loops), status \in Terminal : LoopDocument(t, status)
  \/ ingest.pc # "returned" /\ \E t \in 1..Len(loops) : LoopWake(t)

----------------------------------------------------------------------------
\* retriever_agent.py: the lazily built BM25 index of one RetrieverAgent,
\* while documents are stored into the collection.

\* Bound: number of chunks stored into the collection
MaxStored == 4

\* self.bm25_index = None; self.bm25_documents = []; the collection is empty
InitRetriever ==
  /\ collection = {}
  /\ bm25_index = FALSE
  /\ bm25_documents = {}

\* EmbeddingAgent.store_chunks_in_qdrant: a chunk is upserted
UpsertChunk(c) ==
  /\ c \notin collection
  /\ collection' = collection \cup {c}
  /\ UNCHANGED <<bm25_index, bm25_documents, callVars, pipeVars, jobVars, embedVars, chatVars>>

\* _build_bm25_index: bm25_documents becomes what scroll returns; BM25Okapi
\* raises on an empty corpus and scroll can raise, and then the index stays None
build_bm25_index(scrolled, scroll_raises) ==
  IF scroll_raises THEN [index |-> FALSE, documents |-> bm25_documents]
  ELSE [index |-> scrolled # {}, documents |-> scrolled]

\* sparse_search: the index is built when it is None; without an index or
\* documents the result is []; else every indexed document is a candidate
SearchKeywordIndex(scroll_raises) ==
  LET built == IF bm25_index THEN [index |-> bm25_index, documents |-> bm25_documents]
               ELSE build_bm25_index(collection, scroll_raises)
  IN /\ bm25_index' = built.index
     /\ bm25_documents' = built.documents
     /\ fn' = "bm25_candidates"
     /\ args' = [collection |-> collection]
     /\ result' = IF ~built.index \/ built.documents = {} THEN {} ELSE built.documents
     /\ UNCHANGED <<collection, pipeVars, jobVars, embedVars, chatVars>>

NextIndex ==
  \/ \E c \in 1..MaxStored : UpsertChunk(c)
  \/ /\ fn = "none"
     /\ \E scroll_raises \in BOOLEAN : SearchKeywordIndex(scroll_raises)
  \/ ReturnToCaller

(***************************************************************************)
(* Specifications                                                          *)
(***************************************************************************)

Init == InitJobs /\ InitEmbed /\ InitChat /\ InitCall /\ InitPipeline /\ InitRetriever

\* both pipelines run process_queue
Next == Ingest \/ \E w \in Workers : WorkerStep(w)

Spec == Init /\ [][Next]_vars

\* only the start_app.py pipeline runs process_queue
NextSingle == Ingest \/ WorkerStep("startup")

SpecSingle == Init /\ [][NextSingle]_vars

\* one EmbeddingAgent serving one embed_batch call
SpecEmbed == Init /\ [][NextEmbed]_vars

\* chat turns served concurrently, on fresh and on caller-supplied sessions
SpecChat == Init /\ [][NextChat]_vars

\* chunk_document called on every text of the bounded set
SpecChunk == Init /\ [][NextChunk]_vars

\* retrieve and fuse_results called on every pair of hit lists of the bounded set
SpecRetrieve == Init /\ [][NextRetrieve]_vars

\* the reranker called on every candidate list and judge response of the bounded sets
SpecRerank == Init /\ [][NextRerank]_vars

\* decompose_query with every response of the two providers from the bounded sets
SpecDecompose == Init /\ [][NextDecompose]_vars

\* a scan of every directory listing of the bounded set, into an empty jobs table
SpecScan == Init /\ [][NextScan]_vars

\* ensure_collection called repeatedly, each call failing at any request or at none
SpecEnsure == Init /\ [][NextEnsure]_vars

\* the prompt history of a turn on every session of the bounded set
SpecHistory == Init /\ [][NextHistory]_vars

\* one pipeline under start_processing and stop_processing calls
SpecPipeline == Init /\ [][NextPipeline]_vars

\* sparse_search on every index of the bounded set
SpecSparse == Init /\ [][NextSparse]_vars

\* extract_language_filter on every query of the bounded set
SpecFilter == Init /\ [][NextFilter]_vars

\* the CLI's ingest_documents with its pipeline
SpecIngest == Init /\ [][NextIngest]_vars

\* one RetrieverAgent searching while chunks are stored
SpecIndex == Init /\ [][NextIndex]_vars

----------------------------------------------------------------------------
\* Properties of the job queue

Row(js, doc_id) == get_job(js, doc_id)[1]

Last(s) == s[Len(s)]

Count(s, x) == Cardinality({ k \in 1..Len(s) : s[k] = x })

InProcessDocument(w) == wpc[w] \in {"ocr", "embedding", "completing", "except"}

\* C1: with a single process_queue worker, the statuses written to a job's row
\* form a prefix of pending, processing, completed or of pending, processing,
\* failed, and the row holds the last status written.
C1_StatusHistory ==
  \A d \in DocIds :
    /\ hist[d] \in { <<>>, <<PENDING>>, <<PENDING, PROCESSING>>,
                     <<PENDING, PROCESSING, COMPLETED>>,
                     <<PENDING, PROCESSING, FAILED>> }
    /\ HasRow(jobs, d) <=> hist[d] # <<>>
    /\ HasRow(jobs, d) => Row(jobs, d).status = Last(hist[d])

\* one job went pending, processing, completed and another pending, processing, failed
C1_Witness ==
  /\ \E d \in DocIds : hist[d] = <<PENDING, PROCESSING, COMPLETED>>
  /\ \E d \in DocIds : hist[d] = <<PENDING, PROCESSING, FAILED>>

\* C2: with two workers running get_next_job, a job is claimed (moved to
\* processing and returned) at most once.
C2_ClaimedOnce == \A d \in DocIds : Count(hist[d], PROCESSING) <= 1

\* C3: no write of update_job_status changes the status of a row that is
\* completed or failed.
C3_TerminalIsFinal ==
  [][\A k \in 1..Len(jobs) :
       jobs[k].status \in Terminal => jobs'[k].status = jobs[k].status]_vars

UniqueDocIds(js) == \A a, b \in 1..Len(js) : js[a].doc_id = js[b].doc_id => a = b

\* a step in which add_job ran (inside process_new_file or called directly)
AddJobStep ==
  \/ \E i \in Ingesters : ipc[i] = "add_job" /\ ipc'[i] # "add_job"
  \/ enqueues' # enqueues /\ ipc' = ipc

\* C4: the jobs table never holds two rows with the same doc_id, and a step
\* that runs add_job leaves every row that already exists as it was (so an
\* enqueue of an existing doc_id changes nothing of its row).
C4_IdempotentEnqueue ==
  [][/\ UniqueDocIds(jobs')
     /\ AddJobStep => /\ Len(jobs') >= Len(jobs)
                      /\ \A k \in 1..Len(jobs) : jobs'[k] = jobs[k]]_vars

\* add_job has just raised for a document whose row has status completed
C4_Witness ==
  \E i \in Ingesters :
    /\ ipc[i] = "except"
    /\ HasRow(jobs, generate_doc_id(ifile[i]))
    /\ Row(jobs, generate_doc_id(ifile[i])).status = COMPLETED
    /\ Len(jobs) = 1

\* C5: the except clause of process_document leaves the job failed with the
\* exception's message, and a failed job's row is never changed again (not
\* completed, not returned to pending, not claimed).
C5_FailedIsFinal ==
  [][/\ \A w \in Workers :
          (wpc[w] = "except" /\ wpc'[w] = "loop") =>
             /\ Row(jobs', held[w]).status = FAILED
             /\ Row(jobs', held[w]).error_message = err[w]
     /\ \A k \in 1..Len(jobs) : jobs[k].status = FAILED => jobs'[k] = jobs[k]]_vars

\* C6: every completed job has at least one point in the vector database.
C6_CompletedHasPoints ==
  \A k \in 1..Len(jobs) : jobs[k].status = COMPLETED => jobs[k].doc_id \in points

----------------------------------------------------------------------------
\* Properties of the embedding agent

\* requests sent for the text at index i, and those of them that failed
Attempts(i) == { k \in 1..Len(sent) : sent[k].text = i }
Failures(i) == { k \in Attempts(i) : ~sent[k].ok }

\* C7: any two embedding requests are sent at least the minimum interval
\* 60/requests_per_minute apart.
C7_MinSpacing ==
  \A a, b \in 1..Len(sent) : a < b => sent[b].time - sent[a].time >= MinInterval

\* C8 as stated: embed_batch returns one entry per text, in input order; an
\* entry is None exactly when all retry_count attempts for its text failed; no
\* text gets more than retry_count attempts; the other entries are the texts'
\* own vectors.
C8_BatchResult_AsStated ==
  bpc = "returned" =>
    /\ Len(embeddings) = Len(texts)
    /\ \A i \in 1..Len(texts) :
         /\ Cardinality(Attempts(i)) <= RetryCount
         /\ embeddings[i] = None <=> Cardinality(Failures(i)) = RetryCount
         /\ embeddings[i] # None => embeddings[i] = Vec(i)

\* C8 amended: as stated, except that an entry is also None when no API key is
\* configured, and then no attempt is made for its text.
C8_BatchResult ==
  bpc = "returned" =>
    /\ Len(embeddings) = Len(texts)
    /\ \A i \in 1..Len(texts) :
         /\ Cardinality(Attempts(i)) <= RetryCount
         /\ embeddings[i] = None <=>
              (api_keys = <<>> \/ Cardinality(Failures(i)) = RetryCount)
         /\ api_keys = <<>> => Attempts(i) = {}
         /\ embeddings[i] # None => embeddings[i] = Vec(i)

\* a batch returned in which an earlier text failed all its attempts and a
\* later text was embedded
C8_Witness ==
  /\ bpc = "returned"
  /\ \E i, j \in 1..Len(texts) :
       /\ i < j
       /\ embeddings[i] = None
       /\ Cardinality(Failures(i)) = RetryCount
       /\ embeddings[j] = Vec(j)

----------------------------------------------------------------------------
\* Properties of the chat turn

Steps(t) == { tlog[t][k] : k \in 1..Len(tlog[t]) }

\* C9: the first step of every chat turn is the storing of the user's message
\* (before any retrieval or generation), and a turn that has run to its end
\* stored an assistant message after it.
C9_MessagesPersisted ==
  \A t \in ChatTasks :
    /\ tlog[t] # <<>> => tlog[t][1] = <<"user">>
    /\ tpc[t] \in {"retrieve", "get_history", "generate", "no_context", "except"}
         => tlog[t] # <<>>
    /\ \A k \in 1..Len(tlog[t]) : tlog[t][k] \in {<<"retrieve">>, <<"generate">>} => k > 1
    /\ tpc[t] = "done" =>
         \E k \in 2..Len(tlog[t]) : tlog[t][k][1] = "assistant"

\* a streaming turn with context whose generation yielded nothing has run to its end
C9_Witness ==
  \E t \in ChatTasks :
    /\ tpc[t] = "done"
    /\ tstream[t]
    /\ tctx[t] = "found"
    /\ ttokens[t] = 0

\* C10: in a turn with context, when the primary model streamed nothing the
\* secondary model is invoked and its answer is the turn's response and stored
\* assistant message; when the primary streamed a token it is not invoked.
C10_SecondaryFallback ==
  \A t \in ChatTasks :
    (tpc[t] = "done" /\ tctx[t] = "found") =>
      IF ttokens[t] = 0
        THEN /\ <<"gemini">> \in Steps(t)
             /\ \E o \in GeminiOutcomes :
                  /\ tresp[t] = generate_with_gemini(o)
                  /\ <<"assistant", generate_with_gemini(o)>> \in Steps(t)
        ELSE <<"gemini">> \notin Steps(t)

\* C11: a turn whose retrieval returned nothing responds with the fixed
\* no-relevant-information text, stores it as the assistant message, and runs
\* neither the primary nor the secondary generator.
C11_NoContextTurn ==
  \A t \in ChatTasks :
    /\ tctx[t] = "empty" =>
         /\ <<"generate">> \notin Steps(t)
         /\ <<"gemini">> \notin Steps(t)
         /\ tpc[t] \in {"no_context", "done"}
    /\ (tpc[t] = "done" /\ tctx[t] = "empty") =>
         /\ tresp[t] = NoContextMsg
         /\ Last(tlog[t]) = <<"assistant", NoContextMsg>>

\* a turn that retrieved nothing has run to its end
C11_Witness ==
  \E t \in ChatTasks : tpc[t] = "done" /\ tctx[t] = "empty"

\* C12: every stored chat message belongs to a session that has a record in
\* chat_sessions, whether the session id was generated by chat or supplied by
\* the caller.
C12_SessionRecordExists ==
  \A k \in 1..Len(chat_messages) : chat_messages[k].session_id \in chat_sessions

----------------------------------------------------------------------------
\* Properties of the library functions

\* the words of a token sequence
Words(tokens) == { tokens[k] : k \in { j \in 1..Len(tokens) : tokens[j] > 0 } }

\* C13: every chunk chunk_document returns has at most max_tokens tokens.
C13_ChunkWithinMaxTokens ==
  fn = "chunk_document" =>
    \A i \in 1..Len(result) : result[i].token_count <= args.max_tokens

\* C14: chunking loses nothing: every word of the input text is in some chunk.
C14_NoContentLost ==
  fn = "chunk_document" =>
    \A w \in Words(args.text) : \E i \in 1..Len(result) : w \in Words(result[i].text)

StatedContribution(results, chunk_id, weight, method) ==
  IF chunk_id \notin IdsOf(results) THEN 0
  ELSE LET k == CHOOSE j \in 1..Len(results) : results[j].chunk_id = chunk_id
       IN IF method = "weighted" THEN results[k].score * weight
          ELSE RRFScale \div (60 + (k - 1) + 1)

\* C16: fuse_results yields exactly one result per distinct chunk_id of the two
\* lists, scored with the sum of its per-list contributions (weighted or
\* reciprocal rank), sorted by that score, best first.
C16_FusionScores ==
  fn = "fuse_results" =>
    /\ IdsOf(result) = IdsOf(args.dense) \cup IdsOf(args.sparse)
    /\ DistinctIds(result)
    /\ \A k \in 1..Len(result) :
         result[k].score =
           StatedContribution(args.dense, result[k].chunk_id, DenseWeight, args.method)
           + StatedContribution(args.sparse, result[k].chunk_id, KeywordWeight, args.method)
    /\ NonIncreasing(result)

\* a chunk found by both searches, next to chunks found by one only, in each mode
C16_Witness ==
  /\ fn = "fuse_results"
  /\ IdsOf(args.dense) \cap IdsOf(args.sparse) # {}
  /\ IdsOf(args.dense) \ IdsOf(args.sparse) # {}
  /\ IdsOf(args.sparse) \ IdsOf(args.dense) # {}
  /\ args.method = "rrf"

\* C17: whatever the judge answers, the reordered list is a permutation of the
\* candidates: each candidate appears in it exactly once.
C17_RerankIsPermutation ==
  fn = "_parse_reranking_response" =>
    /\ Len(result) = Len(args.results)
    /\ \A c \in 1..Len(args.results) :
         Cardinality({ k \in 1..Len(result) : result[k] = args.results[c] }) = 1

\* C18: when the judge call raises, returns empty text, or returns text with no
\* parseable index, reranking returns the first top_k candidates in their
\* original order.
C18_RerankFallback ==
  (/\ fn = "rerank_with_gemini"
   /\ \/ args.judge.kind \in {"raises", "empty"}
      \/ \A k \in 1..Len(args.judge.line) : args.judge.line[k].kind # "decimal")
    => result = SubSeq(args.results, 1, Min(args.top_k, Len(args.results)))

\* the judge answered with words only, for more candidates than top_k
C18_Witness ==
  /\ fn = "rerank_with_gemini"
  /\ args.judge.kind = "text"
  /\ args.judge.line # <<>>
  /\ \A k \in 1..Len(args.judge.line) : args.judge.line[k].kind = "word"
  /\ Len(args.results) > args.top_k
  /\ Len(result) = args.top_k

\* a provider's response has no line longer than 10 characters, or there is no response
NoValidLine(outcome) ==
  \A k \in 1..Len(outcome.lines) : outcome.lines[k].letters = "no"

\* the query followed by the lines of the provider whose sub-queries were used
SeenInOrder == << args.query >> \o args.asked[Len(args.asked)].lines

FirstSeen(string) ==
  CHOOSE k \in 1..Len(SeenInOrder) :
    /\ SeenInOrder[k] = string
    /\ \A j \in 1..(k - 1) : SeenInOrder[j] # string

\* C19: decompose_query returns a list that starts with the original query, has
\* no two entries equal up to case, keeps first-seen order and has at most 5
\* entries; for a query of fewer than 8 words, or when neither provider gives a
\* valid line, it returns exactly [query].
C19_DecomposeContract ==
  (fn = "decompose_query" /\ args.stage = "returned") =>
    /\ result[1] = args.query
    /\ Len(result) <= 5
    /\ \A j, k \in 1..Len(result) : result[j].letters = result[k].letters => j = k
    /\ args.asked # <<>> =>
         \A j, k \in 1..Len(result) : j < k => FirstSeen(result[j]) < FirstSeen(result[k])
    /\ args.words < 8 => result = << args.query >> /\ args.asked = <<>>
    /\ (Len(args.asked) = 2 /\ NoValidLine(args.asked[1]) /\ NoValidLine(args.asked[2]))
         => result = << args.query >>

\* the provider repeated the query in other case among five valid lines, and
\* four sub-queries were kept
C19_Witness ==
  /\ fn = "decompose_query"
  /\ args.stage = "returned"
  /\ Len(result) = 4
  /\ args.asked # <<>>
  /\ Len(args.asked[Len(args.asked)].lines) = 5
  /\ \E k \in 1..4 : args.asked[Len(args.asked)].lines[k] = lower(args.query)

----------------------------------------------------------------------------
\* Order of the job queue

\* where the row of a doc_id stands in the table (rows are kept in the order
\* in which add_job inserted them)
PositionOf(doc_id) == CHOOSE i \in 1..Len(jobs) : jobs[i].doc_id = doc_id

PendingUpTo(i) == { k \in 1..i : jobs[k].status = PENDING }

\* C20: get_pending_jobs(limit) returns at most limit jobs, all pending, oldest
\* first, and get_next_job claims jobs in the order in which they were added:
\* a job is selected or claimed only when no job added before it is pending.
C20_FifoQueue ==
  /\ \A limit \in 0..Len(jobs) :
       LET pending == get_pending_jobs(jobs, limit)
       IN /\ Len(pending) = Min(limit, Cardinality(PendingUpTo(Len(jobs))))
          /\ \A k \in 1..Len(pending) :
               /\ pending[k].status = PENDING
               /\ Cardinality(PendingUpTo(PositionOf(pending[k].doc_id))) = k
  /\ \A w \in Workers :
       wpc[w] = "selected" =>
         \A i \in 1..(PositionOf(held[w]) - 1) : jobs[i].status # PENDING
  /\ \A i, j \in 1..Len(jobs) :
       (i < j /\ jobs[j].status # PENDING) => jobs[i].status # PENDING

\* two jobs were added and both were claimed, each exactly once
C20_Witness ==
  /\ Len(jobs) = 2
  /\ \A d \in DocIds : Count(hist[d], PROCESSING) = 1

----------------------------------------------------------------------------
\* Properties of ingestion by content

\* C21: after the detected files are ingested, no two job rows refer to files
\* with identical content.
C21_OneJobPerContent ==
  fn = "scan_existing_files" =>
    \A j, k \in 1..Len(args.pdf_files) :
      (/\ compute_file_hash(args.pdf_files[j]) = compute_file_hash(args.pdf_files[k])
       /\ HasRow(result, generate_doc_id(args.pdf_files[j]))
       /\ HasRow(result, generate_doc_id(args.pdf_files[k])))
        => generate_doc_id(args.pdf_files[j]) = generate_doc_id(args.pdf_files[k])

\* C22: whenever ensure_collection returns normally, the collection exists and
\* doc_id, language and page_num are indexed.
C22_EnsureCollection ==
  fn = "ensure_collection" =>
    \A k \in 1..Len(result) :
      ~result[k].raised =>
        /\ result[k].db.exists
        /\ result[k].db.indexes = {"doc_id", "language", "page_num"}

----------------------------------------------------------------------------
\* Key rotation

\* C23: with two or more keys, the retry of a text is sent with a key other
\* than the one of the attempt that just failed, also when several embed_text
\* calls share the rotator.
C23_RetryUsesOtherKey ==
  Len(api_keys) >= 2 =>
    \A i \in TextIdx :
      \A j, k \in Attempts(i) :
        (j < k /\ \A m \in Attempts(i) : ~(j < m /\ m < k))
          => sent[k].key # sent[j].key

----------------------------------------------------------------------------
\* Properties of the prompt history

\* C24: the chat history in the prompt is the most recent messages (at most 5)
\* that precede the turn's own user message, and never contains that message.
C24_PromptHistory ==
  fn = "build_prompt" =>
    /\ result = SubSeq(args.stored, IF args.own > 5 THEN args.own - 5 ELSE 1, args.own - 1)
    /\ \A k \in 1..Len(result) : result[k].id # args.own

----------------------------------------------------------------------------
\* Properties of one pipeline

\* the process_queue tasks that have not returned
LiveLoops == { t \in 1..Len(loops) : loops[t].pc # "returned" }

\* C25: under any sequence of start_processing and stop_processing calls at
\* most one process_queue loop is claiming jobs and at most one job is in
\* status processing.
C25_OneDocumentAtATime ==
  /\ Cardinality(LiveLoops) <= 1
  /\ Cardinality({ i \in 1..Len(jobs) : jobs[i].status = PROCESSING }) <= 1

----------------------------------------------------------------------------
\* Properties of sparse_search

\* the documents of the index that satisfy the filter, best score first
MatchingByScore(docs, metadata_filter) ==
  BuildResults(docs, SortedIndices(docs),
               [i \in 1..Len(docs) |-> ~Matches(docs[i], metadata_filter)])

\* C26: with a metadata filter, sparse_search returns the highest-scoring
\* indexed documents among those that satisfy the filter, up to the requested
\* count, and every returned result satisfies the filter.
C26_SparseFilter ==
  (fn = "sparse_search" /\ args.metadata_filter # {} /\ args.enable_metadata_filter) =>
    /\ result = Limit(MatchingByScore(args.docs, args.metadata_filter), args.top_k)
    /\ \A k \in 1..Len(result) : Matches(result[k], args.metadata_filter)

----------------------------------------------------------------------------
\* Properties of extract_language_filter

\* codes of the languages the query names by a word of its own
NamedLanguages(words) ==
  { language_map(to_lower(words[k])) :
      k \in { j \in 1..Len(words) :
                \E l \in 1..Len(supported_languages) : supported_languages[l] = to_lower(words[j]) } }

\* C27: the language filter is set only when the query contains a supported
\* language name or code as a word of its own, and then to that language's
\* code; a query naming no language yields no language filter.
C27_LanguageFilter ==
  fn = "extract_language_filter" =>
    /\ NamedLanguages(args.words) = {} => result = NoLanguage
    /\ result # NoLanguage => result \in NamedLanguages(args.words)

----------------------------------------------------------------------------
\* Properties of the chat turn, continued

\* C28: every chat turn that runs to its end appended exactly one assistant
\* message to the session, in streaming and in non-streaming mode alike.
C28_OneAssistantMessage ==
  \A t \in ChatTasks :
    tpc[t] = "done" =>
      Cardinality({ k \in 1..Len(tlog[t]) : tlog[t][k][1] = "assistant" }) = 1

----------------------------------------------------------------------------
\* Properties of the CLI ingestion

\* C29: when ingest_documents reports completion and returns, every job it
\* queued is completed or failed; none is still in status processing.
C29_IngestWaits ==
  ingest.pc = "returned" =>
    \A i \in 1..Len(jobs) : jobs[i].status \in Terminal

----------------------------------------------------------------------------
\* Properties of the keyword index

\* C30: sparse search covers the corpus stored at query time: a chunk upserted
\* after the agent built its index is still a candidate of its later searches.
C30_IndexIsCurrent ==
  (fn = "bm25_candidates" /\ bm25_index) => result = args.collection

====
